---- MODULE Spec2Model ----
(***************************************************************************)
(* Verification model of the infinite-inkblots renderers.                  *)
(*                                                                         *)
(* Identifiers are sequences of one-character strings.  Big integers (the  *)
(* SHA-256 digest and the seeds cut from it) are big-endian sequences of   *)
(* hex digits 0..15, as int(hexstring, 16) reads them.  The digest and the *)
(* pseudo-random generators are library code: they are modelled by small   *)
(* deterministic stand-ins (a polynomial hash, a 16-bit LCG) that keep     *)
(* what the program relies on: the digest is a function of the bytes       *)
(* hashed, a generator's stream is a function of its seed, and a draw      *)
(* advances the generator it is drawn from.                                *)
(***************************************************************************)
EXTENDS Integers, Sequences, FiniteSets, TLC

VARIABLES
    vAddr,      \* SpecValidate: the identifier handed to extract_eth_features
    vOut,       \* SpecValidate: "none" before the call, then "features" or "ValueError"
    pyRandom,   \* state of the process-wide generator of module random
    npRandom,   \* state of the process-wide generator np.random
    thr,        \* per thread: the render call it is running and where it stands
    calls,      \* number of render calls started
    first,      \* history: the first raster returned for each (fn, addr) that returned
    px,         \* SpecPixel: the locals of one call of generate_pixel_inkblot
    nse,        \* SpecNoise, SpecInkblot: the locals of one call of a noise renderer
    org         \* SpecOrganic: the locals of one call of create_realistic_rorschach

vars == <<vAddr, vOut, pyRandom, npRandom, thr, calls, first, px, nse, org>>
apiVars == <<pyRandom, npRandom, thr, calls, first>>
valVars == <<vAddr, vOut>>
renVars == <<px, nse, org>>

-----------------------------------------------------------------------------
(* Characters and strings                                                  *)

HexLen == 40

Digits == {"0", "1", "2", "3", "4", "5", "6", "7", "8", "9"}
HexChars == Digits \cup {"a", "b", "c", "d", "e", "f"}

\* str.lower() on the characters the model uses
LowerChar(c) ==
    CASE c = "A" -> "a" [] c = "B" -> "b" [] c = "C" -> "c"
      [] c = "D" -> "d" [] c = "E" -> "e" [] c = "F" -> "f"
      [] c = "X" -> "x" [] OTHER -> c

Lower(s) == [i \in 1..Len(s) |-> LowerChar(s[i])]

Rep(c, n) == [i \in 1..n |-> c]

\* The elements of s[lo..hi] at the positions in keep, in order
RECURSIVE PickRange(_, _, _, _)
PickRange(s, keep, lo, hi) ==
    IF lo > hi THEN <<>>
    ELSE IF lo = hi THEN (IF lo \in keep THEN <<s[lo]>> ELSE <<>>)
    ELSE LET mid == (lo + hi) \div 2
         IN  PickRange(s, keep, lo, mid) \o PickRange(s, keep, mid + 1, hi)

Pick(s, keep) == PickRange(s, keep, 1, Len(s))

\* str.replace("0x", ""): every occurrence goes, in one pass from the left (two
\* occurrences of "0x" cannot overlap, and what is left is not scanned again)
Replace0x(s) ==
    Pick(s, {i \in 1..Len(s) :
               /\ ~(s[i] = "0" /\ i < Len(s) /\ s[i + 1] = "x")
               /\ ~(s[i] = "x" /\ i > 1 /\ s[i - 1] = "0")})

\* eth_address.lower().replace('0x', '')
Normalize(s) == Replace0x(Lower(s))

\* re.match(r'^[0-9a-f]{40}$', s): forty hex characters from the start, then the
\* end of the string; Python's $ also matches just before one trailing newline
ReMatchHex40(s) ==
    /\ Len(s) >= HexLen
    /\ \A i \in 1..HexLen : s[i] \in HexChars
    /\ \/ Len(s) = HexLen
       \/ Len(s) = HexLen + 1 /\ s[HexLen + 1] = "\n"

\* extract_eth_features: TRUE when it returns features, FALSE when it raises
\* ValueError: the format check, then int(c, 16) on every character, which
\* refuses the trailing newline the check lets through
ExtractAccepts(eth_address) ==
    /\ ReMatchHex40(Normalize(eth_address))
    /\ \A i \in 1..Len(Normalize(eth_address)) : Normalize(eth_address)[i] \in HexChars

-----------------------------------------------------------------------------
(* The identifiers the model hands to the program                          *)

FillChars == {"a", "B", "g"}
BodySlack == 1
Prefixes == {<<>>, <<"0", "x">>, <<"0", "X">>, <<"0", "x", "0", "x">>}
Heads == {<<>>, <<"4", "2", "0">>, <<"6", "9">>, <<"0", "0">>, <<"1">>, <<"0", "x">>}
Tails == {<<>>, <<"6", "9">>, <<"0", "x">>, <<"\n">>, <<"x">>}

\* prefix, head, a run of one character, tail: bodies of HexLen +- BodySlack characters
Identifiers ==
    { p \o h \o Rep(c, n - Len(h) - Len(t)) \o t :
        <<p, h, c, t, n>> \in Prefixes \X Heads \X FillChars \X Tails
                               \X ((HexLen - BodySlack)..(HexLen + BodySlack)) }
    \cup { <<"0", "x", "1", "2", "3">>, <<>> }

-----------------------------------------------------------------------------
(* Big integers, the digest and the generators                             *)

\* hashlib.sha256(bytes).hexdigest() is 64 hex digits
DigestLen == 64

CharList == <<"0", "1", "2", "3", "4", "5", "6", "7", "8", "9",
              "a", "b", "c", "d", "e", "f",
              "A", "B", "C", "D", "E", "F", "x", "X", "g", "\n">>
Code(c) == CHOOSE i \in 1..Len(CharList) : CharList[i] = c

\* Position-weighted sum of q[lo..hi], modulo 65521
RECURSIVE WSum(_, _, _)
WSum(q, lo, hi) ==
    IF lo > hi THEN 0
    ELSE IF lo = hi THEN (q[lo] * (lo * lo + 7 * lo + 13)) % 65521
    ELSE LET mid == (lo + hi) \div 2
         IN  (WSum(q, lo, mid) + WSum(q, mid + 1, hi)) % 65521

FoldBytes(s) == (5381 + 131 * Len(s) + WSum([i \in 1..Len(s) |-> Code(s[i])], 1, Len(s))) % 65521

Expand(x, n) == [i \in 1..n |-> (((x + 31 * i * i + 7 * i) * 75 + 74) % 65537 \div 16) % 16]

\* Stand-in for hashlib.sha256(s.encode()).hexdigest(): DigestLen hex digits that
\* depend on every character of s
Sha256Hex(s) == Expand(FoldBytes(s), DigestLen)

\* int(h[:k], 16)
Leading(h, k) == SubSeq(h, 1, k)

\* The integer without its leading zero digits
StripZeros(n) ==
    LET nz == {i \in 1..Len(n) : n[i] # 0} IN
    IF nz = {} THEN <<>>
    ELSE SubSeq(n, CHOOSE i \in nz : \A k \in nz : i <= k, Len(n))

\* n % 2**32: the low eight hex digits
Mod2p32(n) ==
    LET m == StripZeros(n) IN
    IF Len(m) <= 8 THEN m ELSE StripZeros(SubSeq(m, Len(m) - 7, Len(m)))

\* n < 2**32
Below2p32(n) == Len(StripZeros(n)) <= 8

\* The state of a generator right after seed(n): a function of the integer n
SeedState(n) ==
    LET m == StripZeros(n) IN
    (7 + 257 * Len(m) + WSum([i \in 1..Len(m) |-> m[i] + 1], 1, Len(m))) % 65536

\* One draw: the generator advances; the value drawn is the new state
Lcg(s) == (s * 25173 + 13849) % 65536

PxIdle == px = [pc |-> "none"]
NseIdle == nse = [pc |-> "none"]
OrgIdle == org = [pc |-> "none"]
RenIdle == PxIdle /\ NseIdle /\ OrgIdle

NoneAddr == <<"None">>
NoneSeed == <<-1>>

\* extract_eth_features: seed = int(hex_digest[:8], 16)
FeatureSeed(eth_address) == Leading(Sha256Hex(Normalize(eth_address)), 8)

\* set_seed_from_eth_address: (seed, np_seed), no validation
UtilsSeedNoNone(eth_address) == Leading(Sha256Hex(Normalize(eth_address)), 16)
UtilsSeed(eth_address) ==
    IF eth_address = NoneAddr THEN NoneSeed ELSE UtilsSeedNoNone(eth_address)

\* generate_pixel_inkblot: seed = int(sha256(address.lower()).hexdigest(), 16)
PixelSeed(address) == Sha256Hex(Lower(address))

\* A seeding that leaves the generator as it was
ApplySeed_Skipped(cur, sd) == cur

\* random.seed(seed) / np.random.seed(np_seed), guarded by "is not None"
ApplySeed(cur, sd) == IF sd = NoneSeed THEN cur ELSE SeedState(sd)

-----------------------------------------------------------------------------
(* SpecSeq / SpecPar: render calls as steps of threads over the            *)
(* process-wide generators                                                 *)

Threads == {"t1", "t2"}
MaxCalls == 3
MaxDraws == 2

Renderers == {"create_noise_rorschach", "create_inkblot",
              "create_realistic_rorschach", "generate_pixel_inkblot"}

ValidA == Rep("a", HexLen)
ValidB == <<"0", "x">> \o Rep("b", HexLen)
Short123 == <<"0", "x", "1", "2", "3">>
ApiAddrs == {ValidA, ValidB, Short123, NoneAddr}

\* integer seed arguments of create_noise_rorschach(seed=...)
SeedArgs == {NoneSeed, <<1, 2>>, <<1, 0, 0, 0, 0, 0, 0, 0, 5>>}

IdleThread ==
    [fn |-> "none", addr |-> NoneAddr, seed |-> NoneSeed, pc |-> "idle",
     rnd |-> 0, cnt |-> 0, out |-> <<>>]

ApiIdle ==
    /\ pyRandom = 0 /\ npRandom = 0
    /\ thr = [t \in Threads |-> IdleThread]
    /\ calls = 0
    /\ first = <<>>

ValIdle == vAddr = <<>> /\ vOut = "none"

\* The generators of a fresh process are seeded from OS entropy
InitApi ==
    /\ ValIdle /\ RenIdle
    /\ \E e \in {1, 2} : pyRandom = 10 + e /\ npRandom = 20 + e
    /\ thr = [t \in Threads |-> IdleThread]
    /\ calls = 0
    /\ first = <<>>

Set(t, rec) == thr' = [thr EXCEPT ![t] = rec]

\* A caller invokes a renderer
Call(t) ==
    /\ thr[t].pc = "idle"
    /\ calls < MaxCalls
    /\ \E fn \in Renderers, a \in ApiAddrs, sd \in SeedArgs :
         /\ fn = "generate_pixel_inkblot" => a # NoneAddr
         /\ sd # NoneSeed => fn = "create_noise_rorschach" /\ a = NoneAddr
         /\ Set(t, [IdleThread EXCEPT !.fn = fn, !.addr = a, !.seed = sd,
                                      !.pc = "start"])
    /\ calls' = calls + 1
    /\ UNCHANGED <<pyRandom, npRandom, first, valVars, renVars>>

\* create_noise_rorschach / create_inkblot: extract_eth_features first
NoiseStart(t) ==
    /\ thr[t].pc = "start"
    /\ thr[t].fn \in {"create_noise_rorschach", "create_inkblot"}
    /\ IF thr[t].addr = NoneAddr
       THEN Set(t, [thr[t] EXCEPT !.pc = "seed_py"])
       ELSE IF ExtractAccepts(thr[t].addr)
            THEN Set(t, [thr[t] EXCEPT !.seed = FeatureSeed(thr[t].addr),
                                       !.pc = "seed_py"])
            ELSE Set(t, [thr[t] EXCEPT !.pc = "ValueError"])
    /\ UNCHANGED <<pyRandom, npRandom, calls, first, valVars, renVars>>

\* create_realistic_rorschach: set_seed_from_eth_address
OrganicStart(t) ==
    /\ thr[t].pc = "start"
    /\ thr[t].fn = "create_realistic_rorschach"
    /\ Set(t, [thr[t] EXCEPT !.seed = UtilsSeed(thr[t].addr), !.pc = "seed_py"])
    /\ UNCHANGED <<pyRandom, npRandom, calls, first, valVars, renVars>>

\* generate_pixel_inkblot: rnd = random.Random(seed), a generator of its own
PixelStart(t) ==
    /\ thr[t].pc = "start"
    /\ thr[t].fn = "generate_pixel_inkblot"
    /\ Set(t, [thr[t] EXCEPT !.seed = PixelSeed(thr[t].addr),
                             !.rnd = SeedState(PixelSeed(thr[t].addr)),
                             !.pc = "draw_own"])
    /\ UNCHANGED <<pyRandom, npRandom, calls, first, valVars, renVars>>

\* random.seed(seed)
SeedPy(t) ==
    /\ thr[t].pc = "seed_py"
    /\ pyRandom' = ApplySeed(pyRandom, thr[t].seed)
    /\ Set(t, [thr[t] EXCEPT !.pc = "seed_np"])
    /\ UNCHANGED <<npRandom, calls, first, valVars, renVars>>

\* np.random.seed(seed % 2**32)
SeedNp(t) ==
    /\ thr[t].pc = "seed_np"
    /\ npRandom' = ApplySeed(npRandom,
                     IF thr[t].seed = NoneSeed THEN NoneSeed ELSE Mod2p32(thr[t].seed))
    /\ Set(t, [thr[t] EXCEPT !.pc =
                 IF thr[t].fn = "create_realistic_rorschach" THEN "draw_py"
                 ELSE "perlin_seed"])
    /\ UNCHANGED <<pyRandom, calls, first, valVars, renVars>>

\* generate_perlin_noise: np.random.seed(seed), which refuses seeds >= 2**32
PerlinSeed(t) ==
    /\ thr[t].pc = "perlin_seed"
    /\ IF thr[t].seed # NoneSeed /\ ~Below2p32(thr[t].seed)
       THEN Set(t, [thr[t] EXCEPT !.pc = "ValueError"]) /\ UNCHANGED npRandom
       ELSE /\ npRandom' = ApplySeed(npRandom, thr[t].seed)
            /\ Set(t, [thr[t] EXCEPT !.pc = "draw_np"])
    /\ UNCHANGED <<pyRandom, calls, first, valVars, renVars>>

Finish(th) == [th EXCEPT !.pc = "return", !.cnt = 0]

\* generate_perlin_noise: one lattice of gradients per octave from np.random
DrawNp(t) ==
    /\ thr[t].pc = "draw_np"
    /\ npRandom' = Lcg(npRandom)
    /\ LET nr == [thr[t] EXCEPT !.out = Append(@, Lcg(npRandom)), !.cnt = @ + 1] IN
       Set(t, IF nr.cnt < MaxDraws THEN nr
              ELSE IF nr.fn = "create_inkblot" THEN [nr EXCEPT !.pc = "draw_py", !.cnt = 0]
              ELSE Finish(nr))
    /\ UNCHANGED <<pyRandom, calls, first, valVars, renVars>>

\* shapes, tendrils, spots, drips and edge details: draws from module random
DrawPy(t) ==
    /\ thr[t].pc = "draw_py"
    /\ pyRandom' = Lcg(pyRandom)
    /\ LET nr == [thr[t] EXCEPT !.out = Append(@, Lcg(pyRandom)), !.cnt = @ + 1] IN
       Set(t, IF nr.cnt < MaxDraws THEN nr ELSE Finish(nr))
    /\ UNCHANGED <<npRandom, calls, first, valVars, renVars>>

\* generate_pixel_inkblot: draws from its own generator
DrawOwn(t) ==
    /\ thr[t].pc = "draw_own"
    /\ LET nr == [thr[t] EXCEPT !.rnd = Lcg(@), !.out = Append(@, Lcg(thr[t].rnd)),
                               !.cnt = @ + 1] IN
       Set(t, IF nr.cnt < MaxDraws THEN nr ELSE Finish(nr))
    /\ UNCHANGED <<pyRandom, npRandom, calls, first, valVars, renVars>>

Key(th) == <<th.fn, th.addr>>
HasFirst(k) == \E i \in 1..Len(first) : first[i].key = k
FirstOf(k) == (CHOOSE i \in 1..Len(first) : first[i].key = k)

\* The call returns its raster to the caller (pc "returned" holds it until the
\* caller takes it) or the exception propagates
Return(t) ==
    /\ thr[t].pc = "return"
    /\ Set(t, [thr[t] EXCEPT !.pc = "returned"])
    /\ first' = IF thr[t].addr = NoneAddr THEN first
                ELSE IF HasFirst(Key(thr[t]))
                THEN [first EXCEPT ![FirstOf(Key(thr[t]))].times = 2]
                ELSE Append(first, [key |-> Key(thr[t]), out |-> thr[t].out,
                                    times |-> 1])
    /\ UNCHANGED <<pyRandom, npRandom, calls, valVars, renVars>>

Collect(t) ==
    /\ thr[t].pc \in {"returned", "ValueError"}
    /\ Set(t, [IdleThread EXCEPT !.fn = "collected"])
    /\ UNCHANGED <<pyRandom, npRandom, calls, first, valVars, renVars>>

Step(t) ==
    \/ Call(t) \/ NoiseStart(t) \/ OrganicStart(t) \/ PixelStart(t)
    \/ SeedPy(t) \/ SeedNp(t) \/ PerlinSeed(t)
    \/ DrawNp(t) \/ DrawPy(t) \/ DrawOwn(t)
    \/ Return(t) \/ Collect(t)

\* One caller: render calls one after another
NextSeq == Step("t1")
SpecSeq == InitApi /\ [][NextSeq]_vars

\* Callers in parallel threads, one call each: the steps of the calls interleave
StepPar(t) ==
    \/ thr[t].fn = "none" /\ Call(t)
    \/ NoiseStart(t) \/ OrganicStart(t) \/ PixelStart(t)
    \/ SeedPy(t) \/ SeedNp(t) \/ PerlinSeed(t)
    \/ DrawNp(t) \/ DrawPy(t) \/ DrawOwn(t)
    \/ Return(t)

NextPar == \E t \in Threads : StepPar(t)
SpecPar == InitApi /\ [][NextPar]_vars

\* The draws a call makes when no other call runs in the process
RECURSIVE Stream(_, _)
Stream(st, k) == IF k = 0 THEN <<>> ELSE <<Lcg(st)>> \o Stream(Lcg(st), k - 1)

AloneOut(fn, a) ==
    CASE fn = "create_noise_rorschach" -> Stream(SeedState(FeatureSeed(a)), MaxDraws)
      [] fn = "create_inkblot" ->
            Stream(SeedState(FeatureSeed(a)), MaxDraws)
            \o Stream(SeedState(FeatureSeed(a)), MaxDraws)
      [] fn = "create_realistic_rorschach" -> Stream(SeedState(UtilsSeed(a)), MaxDraws)
      [] fn = "generate_pixel_inkblot" -> Stream(SeedState(PixelSeed(a)), MaxDraws)

GlobalRng == {"create_noise_rorschach", "create_inkblot", "create_realistic_rorschach"}

\* C1 (SpecSeq): a call with an identifier returns the raster that the first call
\* with the same renderer and identifier returned, whatever calls ran in between.
C1_Determinism ==
    \A t \in Threads :
        thr[t].pc = "returned" /\ thr[t].addr # NoneAddr =>
            \A i \in 1..Len(first) :
                first[i].key = Key(thr[t]) => first[i].out = thr[t].out

\* A renderer over the process-wide generators returned for the second time with
\* the same identifier, after a call with other arguments ran in between
C1_Witness ==
    \E t \in Threads :
        /\ thr[t].pc = "returned" /\ thr[t].fn \in GlobalRng
        /\ thr[t].addr \in {ValidA, ValidB}
        /\ calls = 3
        /\ Len(first) = 2
        /\ first[1].key = Key(thr[t]) /\ first[1].times = 2

\* C2 (SpecPar): a call of one of the three renderers with an identifier, run in
\* parallel with a call with another identifier, returns the raster it returns
\* when it runs alone.
C2_NoInterference ==
    \A t \in Threads :
        ( /\ thr[t].pc = "returned" /\ thr[t].fn \in GlobalRng
          /\ thr[t].addr # NoneAddr
          /\ \A u \in Threads \ {t} :
                /\ thr[u].fn \in GlobalRng
                /\ thr[u].addr \notin {NoneAddr, thr[t].addr} )
        => thr[t].out = AloneOut(thr[t].fn, thr[t].addr)

\* C4 (SpecSeq): a render call whose identifier fails the format check gets no
\* further than raising ValueError: it seeds nothing, draws nothing, returns nothing.
C4_InvalidRaises ==
    \A t \in Threads :
        thr[t].addr # NoneAddr /\ ~ExtractAccepts(thr[t].addr) =>
            thr[t].pc \in {"start", "ValueError"}

-----------------------------------------------------------------------------
(* Rasters.  A raster of side size is a function on (0..size-1) x          *)
(* (0..size-1), <<x, y>> with x the column; a layer that holds only opaque *)
(* black on transparent is the set of its opaque pixels.                   *)

Pixels(size) == (0..(size - 1)) \X (0..(size - 1))

\* int(v) for the float v = num / den, den > 0: truncation toward zero
Trunc(num, den) == IF num >= 0 THEN num \div den ELSE -((-num) \div den)

\* int(g * cell_size) with cell_size = size / cells
CellPx(g, size, cells) == Trunc(g * size, cells)

\* ImageDraw.rectangle([x0, y0, x1, y1]): both corners are drawn; clipped to the image
Rect(x0, y0, x1, y1, size) ==
    {q \in Pixels(size) : x0 <= q[1] /\ q[1] <= x1 /\ y0 <= q[2] /\ q[2] <= y1}

\* The rectangle the code draws for grid cell (gx, gy): [x0, y0, x1, y1] with
\* x1 = int((gx + 1) * cell_size), the first pixel of the next cell
CellRect(gx, gy, size, cells) ==
    Rect(CellPx(gx, size, cells), CellPx(gy, size, cells),
         CellPx(gx + 1, size, cells), CellPx(gy + 1, size, cells), size)

\* rnd.random() as a fraction of 64
Random64(st) == st \div 1024

\* rnd.randint(lo, hi)
RandInt(st, lo, hi) == lo + (st * (hi - lo + 1)) \div 65536

\* n + k for a digit string n and a small k >= 0
RECURSIVE AddSmall(_, _)
AddSmall(n, k) ==
    IF k = 0 THEN n
    ELSE IF Len(n) = 0 THEN AddSmall(<<k % 16>>, 0) \* k < 16 once the digits run out
    ELSE LET d == n[Len(n)] + k
         IN  Append(AddSmall(SubSeq(n, 1, Len(n) - 1), d \div 16), d % 16)

-----------------------------------------------------------------------------
(* SpecPixel: generate_pixel_inkblot, step by step                         *)

MaxSize == 6
PixelSizes == 4..MaxSize
PixelGrids == {3, 4}

\* add_grid_splatter(..., scale=2, ...), Random(seed + 1337), ((zero_count - 1) / 9) * 400
SplatterScale == 2
SplatterOffset == 1337
SplatterNine == 9
SplatterFull == 400

ZeroOne == <<"0">> \o Rep("a", HexLen - 1)
ZeroTwo == <<"0", "0">> \o Rep("a", HexLen - 2)
ZeroThree == <<"0", "x", "0", "0", "0">> \o Rep("B", HexLen - 3)
Gold420 == <<"4", "2", "0">> \o Rep("a", HexLen - 3)
Gold69 == Rep("a", HexLen - 2) \o <<"6", "9">>
PixelAddrs == {ValidA, ValidB, ZeroOne, ZeroTwo, ZeroThree, Gold420, Gold69, Short123}

\* hex_part.count("0")
CountZeros(s) == Cardinality({i \in 1..Len(s) : s[i] = "0"})

\* rnd.random() < fill_prob * (1.0 - dist / (grid / 2)) with fill_prob = 1.1,
\* dist = sqrt(dx^2 + dy^2) and the draw u64 / 64: both sides squared
FillsCell(u64, dx, dy, grid) ==
    4 * 704 * 704 * (dx * dx + dy * dy)
        < grid * grid * (704 - 10 * u64) * (704 - 10 * u64)

\* Step 1: for dx in range(-grid // 4, grid // 4): for dy in range(-grid // 2, grid // 2)
InkLayer(seed, size, grid) ==
    LET xlo == (-grid) \div 4
        ylo == (-grid) \div 2
        nx == grid \div 4 - xlo
        ny == grid \div 2 - ylo
        draws == Stream(SeedState(seed), nx * ny)
        filled == {k \in 1..(nx * ny) :
                     FillsCell(Random64(draws[k]), xlo + (k - 1) \div ny,
                               ylo + ((k - 1) % ny), grid)}
    IN  UNION {CellRect(grid \div 4 + xlo + (k - 1) \div ny,
                        grid \div 2 + ylo + ((k - 1) % ny), size, grid) : k \in filled}

\* Step 2: left = crop((0, 0, size // 2, size)); paste(left flipped, (size // 2, 0))
MirrorLeft(layer, size) ==
    LET half == size \div 2 IN
    {q \in layer : q[1] < half \/ q[1] >= 2 * half}
    \cup {<<2 * half - 1 - q[1], q[2]>> : q \in {r \in layer : r[1] < half}}

SplatterCount_PerZero(zero_count) == (zero_count * SplatterFull) \div SplatterNine

\* Step 3: count = int(((zero_count - 1) / 9) * 400)
SplatterCount(zero_count) == ((zero_count - 1) * SplatterFull) \div SplatterNine

\* add_grid_splatter: abs(gx - splat_grid // 2) < splat_grid // 4: continue
SplatterSkips(gx, splat_grid) ==
    LET d == gx - splat_grid \div 2 IN
    (IF d < 0 THEN -d ELSE d) < splat_grid \div 4

\* create_ink_bleed_layer_blur: the blurred alpha of the ink, 0..255 (the Gaussian
\* blur is taken as the mean over the 3 x 3 neighbourhood, edges extended)
Clamp(v, size) == IF v < 0 THEN 0 ELSE IF v > size - 1 THEN size - 1 ELSE v

BleedAlpha(layer, q, size) ==
    (255 * Cardinality({d \in {-1, 0, 1} \X {-1, 0, 1} :
             <<Clamp(q[1] + d[1], size), Clamp(q[2] + d[2], size)>> \in layer}))
        \div 9

\* Image.new("RGBA", size, colour): a layer is a function from pixels to <<r, g, b, a>>
NewImage(size, colour) == [q \in Pixels(size) |-> colour]

\* The ink layer as an RGBA image: (0, 0, 0, 255) where drawn on (0, 0, 0, 0)
InkImage(layer, size) ==
    [q \in Pixels(size) |-> IF q \in layer THEN <<0, 0, 0, 255>> ELSE <<0, 0, 0, 0>>]

\* create_ink_bleed_layer_blur: black, its alpha the blurred alpha of the ink
CreateInkBleedLayerBlur(layer, size) ==
    [q \in Pixels(size) |-> <<0, 0, 0, BleedAlpha(layer, q, size)>>]

\* One pixel of Image.alpha_composite(dst, src): src over dst, rounded to nearest
Over(d, s) ==
    IF s[4] = 0 THEN d
    ELSE LET blend == d[4] * (255 - s[4])
             outa255 == s[4] * 255 + blend
             c(i) == (s[i] * s[4] * 255 + d[i] * blend + outa255 \div 2) \div outa255
         IN  <<c(1), c(2), c(3), (outa255 + 127) \div 255>>

\* Image.alpha_composite(dst, src)
AlphaComposite(dst, src) == [q \in DOMAIN dst |-> Over(dst[q], src[q])]

\* combined = alpha_composite(alpha_composite(base, ...), ...): the layers are
\* composited one by one, layers[1] at the bottom
RECURSIVE Combined(_)
Combined(layers) ==
    IF Len(layers) = 1 THEN layers[1]
    ELSE AlphaComposite(Combined(SubSeq(layers, 1, Len(layers) - 1)), layers[Len(layers)])

\* final = combined.convert("RGB")
ConvertRGB(img) == [q \in DOMAIN img |-> <<img[q][1], img[q][2], img[q][3]>>]

\* The two generate_pixel_inkblot of the repository: src/inkblot.py puts a bleed
\* layer under the ink, src/old/inkblot.py a branch layer and a drip layer
PixelVariants == {"inkblot", "old"}

\* The layers with the ink at the bottom and the white background on top
LayerStack_TopDown(p) ==
    IF p.variant = "old"
    THEN <<InkImage(p.ink, p.size), p.drips, p.branches,
           NewImage(p.size, <<255, 255, 255, 255>>)>>
    ELSE <<InkImage(p.ink, p.size), CreateInkBleedLayerBlur(p.ink, p.size),
           NewImage(p.size, <<255, 255, 255, 255>>)>>

\* The layers in the order of the alpha_composite calls, bottom first
LayerStack(p) ==
    IF p.variant = "old"
    THEN <<NewImage(p.size, <<255, 255, 255, 255>>), p.branches, p.drips,
           InkImage(p.ink, p.size)>>
    ELSE <<NewImage(p.size, <<255, 255, 255, 255>>),
           CreateInkBleedLayerBlur(p.ink, p.size), InkImage(p.ink, p.size)>>

InitPixel ==
    /\ ValIdle /\ ApiIdle /\ NseIdle /\ OrgIdle
    /\ \E a \in PixelAddrs, sz \in PixelSizes, g \in PixelGrids, v \in PixelVariants :
         px = [pc |-> "ink", variant |-> v, addr |-> a, size |-> sz, grid |-> g,
               seed |-> PixelSeed(a), ink |-> {}, count |-> 0, attempts |-> 0,
               marks |-> 0, skips |-> 0, cols |-> {}, srnd |-> 0, img |-> <<>>,
               brnd |-> 0, iteration |-> 0, active |-> <<>>, fresh |-> <<>>, at |-> 0,
               branches |-> <<>>, drips |-> <<>>, drnd |-> 0]

\* Step 1: draw inkblot with transparent background
DrawInk ==
    /\ px.pc = "ink"
    /\ px' = [px EXCEPT !.ink = InkLayer(px.seed, px.size, px.grid), !.pc = "mirror"]
    /\ UNCHANGED <<valVars, apiVars, nse, org>>

\* Step 2: mirror
Mirror ==
    /\ px.pc = "mirror"
    /\ px' = [px EXCEPT !.ink = MirrorLeft(px.ink, px.size), !.pc = "splatter"]
    /\ UNCHANGED <<valVars, apiVars, nse, org>>

\* After the splatter src/old/inkblot.py builds its branch and drip layers
AfterSplatter(p) == IF p.variant = "old" THEN "branches" ELSE "composite"

\* create_pixel_branches(ink_layer, seed, iterations=4, branch_prob=0.6, fade_factor=0.2)
BranchOffset == 123
BranchIterations == 4

\* Neighbor directions (8-connected) and their weights, in tenths
Directions ==
    << <<-1, -1>>, <<0, -1>>, <<1, -1>>, <<-1, 0>>, <<1, 0>>, <<-1, 1>>, <<0, 1>>, <<1, 1>> >>
DirWeights == <<6, 7, 6, 8, 8, 9, 10, 9>>

\* 1000 * sin(n * 0.1) and 1000 * cos(n * 0.1) for n = 0..7
SinTenth == <<0, 100, 199, 296, 389, 479, 565, 644>>
CosTenth == <<1000, 995, 980, 955, 921, 878, 825, 765>>

\* pos_factor = 0.9 + 0.2 * math.sin(nx * 0.1) * math.cos(ny * 0.1), in thousandths
PosFactor(nx, ny) == 900 + (200 * SinTenth[nx + 1] * CosTenth[ny + 1]) \div 1000000

\* rnd.random() < branch_prob * dir_weights[i] * pos_factor for the draw u64 / 64
\* and branch_prob = 0.6: u64 / 64 < (6 / 10) * (w / 10) * (f / 1000)
BranchesTo(u64, i, nx, ny) == u64 * 100000 < 64 * 6 * DirWeights[i] * PosFactor(nx, ny)

\* A branch as strong as the point it grows from
FadeNext_None(intensity) == intensity

\* next_intensity = int(intensity * fade_factor) with fade_factor = 0.2
FadeNext(intensity) == (intensity * 2) \div 10

\* ImageFilter.FIND_EDGES on the alpha of the ink, > 10: an ink pixel with a
\* pixel without ink among its 8 neighbours, or on the rim of the image (which
\* the filter copies); listed for y in range(h): for x in range(w)
InkEdgePoints(ink, size) ==
    LET rim(q) == q[1] = 0 \/ q[1] = size - 1 \/ q[2] = 0 \/ q[2] = size - 1
        edge == {q \in ink \cap Pixels(size) :
                    rim(q) \/ \E i \in 1..8 :
                                 <<q[1] + Directions[i][1], q[2] + Directions[i][2]>> \notin ink}
        key(q) == q[2] * size + q[1]
    IN  [k \in 1..Cardinality(edge) |->
            CHOOSE q \in edge : Cardinality({r \in edge : key(r) < key(q)}) = k - 1]

\* new_active_points[(nx, ny)] = next_intensity: a key already in the dict keeps
\* its place, a new one goes to the end
SetPoint(points, q, v) ==
    IF \E k \in 1..Len(points) : points[k][1] = q
    THEN [k \in 1..Len(points) |-> IF points[k][1] = q THEN <<q, v>> ELSE points[k]]
    ELSE Append(points, <<q, v>>)

\* "for i, (dx, dy) in enumerate(directions)": out of bounds, solid ink and a
\* branch at least as strong are skipped before anything is drawn from rnd
RECURSIVE TryDirections(_, _, _, _, _, _)
TryDirections(st, i, pt, next_intensity, ink, size) ==
    IF i > Len(Directions) THEN st
    ELSE LET n == <<pt[1] + Directions[i][1], pt[2] + Directions[i][2]>>
             s1 == Lcg(st.rnd)
         IN  IF n \notin Pixels(size) \/ n \in ink
             THEN TryDirections(st, i + 1, pt, next_intensity, ink, size)
             ELSE IF st.branches[n] >= next_intensity
             THEN TryDirections(st, i + 1, pt, next_intensity, ink, size)
             ELSE IF BranchesTo(Random64(s1), i, n[1], n[2])
             THEN TryDirections([rnd |-> s1,
                                 branches |-> [st.branches EXCEPT ![n] = next_intensity],
                                 fresh |-> SetPoint(st.fresh, n, next_intensity)],
                                i + 1, pt, next_intensity, ink, size)
             ELSE TryDirections([st EXCEPT !.rnd = s1], i + 1, pt, next_intensity, ink, size)

\* create_ink_drips: "for y in range(h//2, h-20)", an ink pixel with empty
\* space below it is a potential drip starting point
DripStarts(ink, size) ==
    {q \in Pixels(size) : /\ q[2] >= size \div 2 /\ q[2] < size - 20
                          /\ q \in ink /\ q[2] + 1 < size
                          /\ <<q[1], q[2] + 1>> \notin ink}

\* The splatter drawing from the module-level generator of the process
SplatterGenerator_Shared(seed) == pyRandom

\* add_grid_splatter: rnd = random.Random(seed + 1337)
SplatterGenerator(seed) == SeedState(AddSmall(seed, SplatterOffset))

\* create_ink_drips: rnd = random.Random(seed + 456)
DripOffset == 456

\* Step 3: conditional splatter
SplatterStart ==
    /\ px.pc = "splatter"
    /\ LET zero_count == CountZeros(Normalize(px.addr)) IN
       px' = IF zero_count > 1
             THEN [px EXCEPT !.count = SplatterCount(zero_count),
                             !.srnd = SplatterGenerator(px.seed),
                             !.pc = "splat_loop"]
             ELSE [px EXCEPT !.pc = AfterSplatter(px)]
    /\ UNCHANGED <<valVars, apiVars, nse, org>>

\* add_grid_splatter: one round of "for _ in range(count)"
AddGridSplatter ==
    /\ px.pc = "splat_loop"
    /\ px.attempts < px.count
    /\ LET splat_grid == px.grid * SplatterScale
           s1 == Lcg(px.srnd)
           s2 == Lcg(s1)
           gx == RandInt(s1, 0, splat_grid - 1)
           gy == RandInt(s2, 0, splat_grid - 1)
       IN  px' = IF SplatterSkips(gx, splat_grid)
                 THEN [px EXCEPT !.srnd = s2, !.attempts = @ + 1, !.skips = @ + 1]
                 ELSE [px EXCEPT !.srnd = s2, !.attempts = @ + 1, !.marks = @ + 1,
                                 !.cols = @ \cup {gx},
                                 !.ink = @ \cup CellRect(gx, gy, px.size, splat_grid)]
    /\ UNCHANGED <<valVars, apiVars, nse, org>>

SplatterEnd ==
    /\ px.pc = "splat_loop"
    /\ px.attempts = px.count
    /\ px' = [px EXCEPT !.pc = AfterSplatter(px)]
    /\ UNCHANGED <<valVars, apiVars, nse, org>>

\* create_pixel_branches: rnd = random.Random(seed + 123); the edge points of the
\* ink start the automaton at full intensity
CreatePixelBranches ==
    /\ px.pc = "branches"
    /\ LET edge_points == InkEdgePoints(px.ink, px.size)
           active_points == [k \in 1..Len(edge_points) |-> <<edge_points[k], 255>>]
       IN  px' = [px EXCEPT !.brnd = SeedState(AddSmall(px.seed, BranchOffset)),
                            !.branches = [q \in Pixels(px.size) |-> 0],
                            !.active = active_points, !.fresh = active_points,
                            !.iteration = 0, !.at = 1, !.pc = "branch_loop"]
    /\ UNCHANGED <<valVars, apiVars, nse, org>>

\* create_pixel_branches: one round of "for (x, y), intensity in active_points.items()"
BranchFrom ==
    /\ px.pc = "branch_loop"
    /\ px.at <= Len(px.active)
    /\ LET pt == px.active[px.at][1]
           intensity == px.active[px.at][2]
           st == TryDirections([rnd |-> px.brnd, branches |-> px.branches,
                                fresh |-> px.fresh],
                               1, pt, FadeNext(intensity), px.ink, px.size)
       IN  px' = IF intensity < 30
                 THEN [px EXCEPT !.at = @ + 1]
                 ELSE [px EXCEPT !.at = @ + 1, !.brnd = st.rnd,
                                 !.branches = st.branches, !.fresh = st.fresh]
    /\ UNCHANGED <<valVars, apiVars, nse, org>>

\* create_pixel_branches: the end of one of the iterations=4 rounds; the points
\* of intensity >= 20 stay active; after the last round the array becomes the
\* alpha of a black image
BranchIteration ==
    /\ px.pc = "branch_loop"
    /\ px.at > Len(px.active)
    /\ LET kept == SelectSeq(px.fresh, LAMBDA e : e[2] >= 20) IN
       px' = IF px.iteration + 1 < BranchIterations
             THEN [px EXCEPT !.iteration = @ + 1, !.active = kept, !.fresh = kept,
                             !.at = 1]
             ELSE [px EXCEPT !.iteration = @ + 1, !.active = kept, !.fresh = kept,
                             !.branches = [q \in Pixels(px.size) |->
                                              <<0, 0, 0, px.branches[q]>>],
                             !.pc = "drips"]
    /\ UNCHANGED <<valVars, apiVars, nse, org>>

\* create_ink_drips: no pixel of the rows range(h // 2, h - 20) starts a drip,
\* which is so for every raster of fewer than 42 rows; rnd = random.Random(seed
\* + 456) is built, the layer stays (0, 0, 0, 0) and rnd is never drawn from
CreateInkDrips ==
    /\ px.pc = "drips"
    /\ DripStarts(px.ink, px.size) = {}
    /\ px' = [px EXCEPT !.drnd = SeedState(AddSmall(px.seed, DripOffset)),
                        !.drips = NewImage(px.size, <<0, 0, 0, 0>>), !.pc = "composite"]
    /\ UNCHANGED <<valVars, apiVars, nse, org>>

\* "Composite the layers": background first, ink last, then convert("RGB")
CompositeLayers ==
    /\ px.pc = "composite"
    /\ px' = [px EXCEPT !.img = ConvertRGB(Combined(LayerStack(px))), !.pc = "border"]
    /\ UNCHANGED <<valVars, apiVars, nse, org>>

\* PALETTES: finite colour palettes (R, G, B)
PALETTES ==
    << << <<0, 0, 0>>, <<100, 100, 100>> >>,
       << <<0, 0, 80>>, <<80, 80, 255>> >>,
       << <<80, 0, 0>>, <<255, 100, 100>> >>,
       << <<0, 60, 0>>, <<120, 255, 120>> >>,
       << <<50, 30, 0>>, <<255, 220, 150>> >>,
       << <<50, 0, 50>>, <<200, 100, 200>> >> >>

\* Three-stage gradient: outer -> inner -> center
GoldPalette == << <<153, 112, 0>>, <<255, 230, 128>>, <<153, 112, 0>> >>

\* str.startswith / str.endswith
StartsWith(s, pre) == Len(s) >= Len(pre) /\ SubSeq(s, 1, Len(pre)) = pre
EndsWith(s, suf) == Len(s) >= Len(suf) /\ SubSeq(s, Len(s) - Len(suf) + 1, Len(s)) = suf

\* int(h[0:2], 16) % len(PALETTES)
PaletteIndex(hex_addr) ==
    LET h == Sha256Hex(hex_addr) IN (16 * h[1] + h[2]) % Len(PALETTES)

GetBorderPalette_PrefixOnly(address) ==
    LET hex_addr == Normalize(address) IN
    IF StartsWith(hex_addr, <<"4", "2", "0">>) \/ StartsWith(hex_addr, <<"6", "9">>)
    THEN GoldPalette
    ELSE PALETTES[PaletteIndex(hex_addr) + 1]

GetBorderPalette(address) ==
    LET hex_addr == Normalize(address) IN
    IF \/ StartsWith(hex_addr, <<"4", "2", "0">>) \/ EndsWith(hex_addr, <<"4", "2", "0">>)
       \/ StartsWith(hex_addr, <<"6", "9">>) \/ EndsWith(hex_addr, <<"6", "9">>)
    THEN GoldPalette
    ELSE PALETTES[PaletteIndex(hex_addr) + 1]

\* lerp_color(c1, c2, t) with t = num / den
LerpColor(c1, c2, num, den) ==
    [i \in 1..3 |-> Trunc(c1[i] * den + (c2[i] - c1[i]) * num, den)]

Min(a, b) == IF a < b THEN a ELSE b
Max(a, b) == IF a > b THEN a ELSE b

\* The distances to the far edges instead of the near ones
BorderDist_Far(gx, gy, grid_size) ==
    Max(gx, grid_size - 1 - gx) + Max(gy, grid_size - 1 - gy)

\* dist_x + dist_y of border cell (gx, gy); progress is this over 2 * (grid_size - 1)
BorderDist(gx, gy, grid_size) ==
    Min(gx, grid_size - 1 - gx) + Min(gy, grid_size - 1 - gy)

\* get_color(progress) for progress = d / (2 * (grid_size - 1))
GetColor(palette, d, grid_size) ==
    IF Len(palette) = 2
    THEN LerpColor(palette[1], palette[2], d, 2 * (grid_size - 1))
    ELSE IF d < grid_size - 1
         THEN LerpColor(palette[1], palette[2], d, grid_size - 1)
         ELSE LerpColor(palette[2], palette[3], d - (grid_size - 1), grid_size - 1)

\* Every cell taken for an edge cell
IsEdge_All(gx, gy, grid_size) == gx >= 0 /\ gy >= 0

IsEdge(gx, gy, grid_size) ==
    gx = 0 \/ gx = grid_size - 1 \/ gy = 0 \/ gy = grid_size - 1

\* add_grid_border_gradient_colored: the edge cells are drawn for gx ascending,
\* then gy ascending; a pixel keeps the colour of the last rectangle over it
AddGridBorderGradientColored(img, size, grid_size, address) ==
    LET palette == GetBorderPalette(address)
        cover(q) == {c \in (0..(grid_size - 1)) \X (0..(grid_size - 1)) :
                        IsEdge(c[1], c[2], grid_size)
                        /\ q \in CellRect(c[1], c[2], size, grid_size)}
        last(q) == CHOOSE c \in cover(q) :
                        \A e \in cover(q) : e[1] * grid_size + e[2] <= c[1] * grid_size + c[2]
    IN  [q \in Pixels(size) |->
            IF cover(q) = {} THEN img[q]
            ELSE GetColor(palette, BorderDist(last(q)[1], last(q)[2], grid_size), grid_size)]

\* Step 6: add gradient border on top
Border ==
    /\ px.pc = "border"
    /\ px' = [px EXCEPT !.img = AddGridBorderGradientColored(px.img, px.size, px.grid, px.addr),
                        !.pc = "done"]
    /\ UNCHANGED <<valVars, apiVars, nse, org>>

NextPixel == DrawInk \/ Mirror \/ SplatterStart \/ AddGridSplatter \/ SplatterEnd
               \/ CreatePixelBranches \/ BranchFrom \/ BranchIteration \/ CreateInkDrips
               \/ CompositeLayers \/ Border

SpecPixel == InitPixel /\ [][NextPixel]_vars

\* The pixels the border paints: the rectangles of the edge cells
BorderRing(size, grid_size) ==
    UNION {CellRect(c[1], c[2], size, grid_size) :
             c \in {e \in (0..(grid_size - 1)) \X (0..(grid_size - 1)) :
                      IsEdge(e[1], e[2], grid_size)}}

\* The colours of the gradient of a palette
BorderColours(palette, grid_size) ==
    {GetColor(palette, d, grid_size) : d \in 0..(2 * (grid_size - 1))}

C5_PixelMirrorSymmetry ==
    px.pc = "done" =>
        \A q \in Pixels(px.size) : px.img[q] = px.img[<<px.size - 1 - q[1], q[2]>>]

\* C9 as stated: the number of splatter marks drawn equals
\* floor(((zero_count - 1) / 9) * 400) when zero_count > 1, and is 0 otherwise.
C9_MarksEqualFloor ==
    px.pc = "done" =>
        LET zero_count == CountZeros(Replace0x(Lower(px.addr))) IN
        px.marks = IF zero_count > 1 THEN (400 * (zero_count - 1)) \div 9 ELSE 0

\* C9 amended: when zero_count > 1 the renderer makes exactly
\* floor(((zero_count - 1) / 9) * 400) splatter attempts; an attempt draws a mark
\* unless its column lies in the central band abs(gx - splat_grid // 2) <
\* splat_grid // 4, so marks drawn = attempts - skipped attempts, and every mark
\* lies outside the band.  When zero_count <= 1 nothing is attempted or drawn.
C9_AttemptsEqualFloor ==
    px.pc = "done" =>
        LET zero_count == CountZeros(Replace0x(Lower(px.addr)))
            splat_grid == 2 * px.grid
        IN  /\ zero_count > 1 =>
                 /\ px.attempts = (400 * (zero_count - 1)) \div 9
                 /\ px.marks + px.skips = px.attempts
                 /\ \A gx \in px.cols :
                      ~(gx - splat_grid \div 2 < splat_grid \div 4
                        /\ splat_grid \div 2 - gx < splat_grid \div 4)
            /\ zero_count <= 1 => px.attempts = 0 /\ px.marks = 0 /\ px.cols = {}

C9_Witness ==
    /\ px.pc = "done"
    /\ CountZeros(Replace0x(Lower(px.addr))) = 3
    /\ px.attempts = 88
    /\ px.marks > 0
    /\ px.skips > 0

-----------------------------------------------------------------------------
(* SpecPalette: get_border_palette on one identifier                       *)

End420 == Rep("a", HexLen - 3) \o <<"4", "2", "0">>
Upper69 == <<"0", "X", "6", "9">> \o Rep("C", HexLen - 2)
Split420 == <<"4", "0", "x", "2", "0">> \o Rep("d", HexLen - 3)
Mid69 == Rep("e", 19) \o <<"6", "9">> \o Rep("e", 19)
PaletteAddrs == Identifiers \cup PixelAddrs \cup {End420, Upper69, Split420, Mid69}

InitPalette ==
    /\ ValIdle /\ ApiIdle /\ NseIdle /\ OrgIdle
    /\ \E a \in PaletteAddrs :
         px = [pc |-> "palette", addr |-> a, palette |-> <<>>, metadata |-> <<>>]

\* get_palette_metadata(address): always an entry of PALETTES
GetPaletteMetadata(address) ==
    LET hex_addr == Normalize(address)
        index == PaletteIndex(hex_addr)
    IN  [palette_index |-> index,
         start_color |-> PALETTES[index + 1][1],
         end_color |-> PALETTES[index + 1][2]]

GetBorderPaletteCall ==
    /\ px.pc = "palette"
    /\ px' = [px EXCEPT !.palette = GetBorderPalette(px.addr), !.pc = "palette_done"]
    /\ UNCHANGED <<valVars, apiVars, nse, org>>

\* metadata = get_palette_metadata(address), as in the example after the render
GetPaletteMetadataCall ==
    /\ px.pc = "palette_done"
    /\ px' = [px EXCEPT !.metadata = GetPaletteMetadata(px.addr), !.pc = "metadata_done"]
    /\ UNCHANGED <<valVars, apiVars, nse, org>>

NextPalette == GetBorderPaletteCall \/ GetPaletteMetadataCall

SpecPalette == InitPalette /\ [][NextPalette]_vars

\* C10: get_border_palette returns the 3-stop gold gradient exactly when the
\* lowercased identifier with "0x" removed starts or ends with "420" or "69",
\* whatever its digest; otherwise it returns the 2-stop entry of the 6-entry
\* table at index (first digest byte of the normalized identifier) mod 6.
C10_PaletteSelection ==
    px.pc = "palette_done" =>
        LET n == Replace0x(Lower(px.addr))
            special == \E pat \in {<<"4", "2", "0">>, <<"6", "9">>} :
                            StartsWith(n, pat) \/ EndsWith(n, pat)
            first_byte == 16 * Sha256Hex(n)[1] + Sha256Hex(n)[2]
        IN  /\ Len(PALETTES) = 6
            /\ special <=> (px.palette = GoldPalette /\ Len(px.palette) = 3)
            /\ ~special => px.palette = PALETTES[(first_byte % 6) + 1] /\ Len(px.palette) = 2

C10_Witness ==
    /\ px.pc = "palette_done"
    /\ EndsWith(Replace0x(Lower(px.addr)), <<"6", "9">>)
    /\ ~StartsWith(Replace0x(Lower(px.addr)), <<"6", "9">>)
    /\ px.palette = GoldPalette

\* C26 (SpecPalette): the start_color and end_color get_palette_metadata reports
\* are the first and the last stop of the palette get_border_palette returns
\* for the same identifier.
C26_MetadataAgrees ==
    px.pc = "metadata_done" =>
        /\ px.metadata.start_color = px.palette[1]
        /\ px.metadata.end_color = px.palette[Len(px.palette)]

-----------------------------------------------------------------------------
(* SpecBorder: add_grid_border_gradient_colored, cell by cell               *)

MaxGrid == 5
BorderGrids == 2..MaxGrid
BorderSizes == {2 * MaxGrid - 1, 2 * MaxGrid}
BorderAddrs == {ValidA, ValidB, Gold420}

InitBorder ==
    /\ ValIdle /\ ApiIdle /\ NseIdle /\ OrgIdle
    /\ \E a \in BorderAddrs, sz \in BorderSizes, g \in BorderGrids :
         px = [pc |-> "border_loop", addr |-> a, size |-> sz, grid |-> g,
               palette |-> GetBorderPalette(a), gx |-> 0, gy |-> 0,
               img |-> [q \in Pixels(sz) |-> <<255, 255, 255>>], cells |-> {}]

\* the next (gx, gy) of "for gx in range(grid_size): for gy in range(grid_size)"
NextCell(p) ==
    IF p.gy + 1 < p.grid THEN [p EXCEPT !.gy = @ + 1] ELSE [p EXCEPT !.gx = @ + 1, !.gy = 0]

\* progress = max(0, min(1, progress)) for progress = num / den
ClampProgress(num, den) == IF num < 0 THEN 0 ELSE IF num > den THEN den ELSE num

\* the branch of get_color that a progress of num / den takes
ColorBranch(palette, num, den) ==
    IF Len(palette) = 2 THEN "two stops"
    ELSE IF 2 * num < den THEN "progress < 0.5" ELSE "else"

\* "if not is_edge: continue"
BorderContinue ==
    /\ px.pc = "border_loop"
    /\ px.gx < px.grid
    /\ ~IsEdge(px.gx, px.gy, px.grid)
    /\ px' = NextCell(px)
    /\ UNCHANGED <<valVars, apiVars, nse, org>>

\* one edge cell: progress, its clamp, color = get_color(progress) and
\* draw.rectangle([x0, y0, x1, y1], fill=color)
BorderCell ==
    /\ px.pc = "border_loop"
    /\ px.gx < px.grid
    /\ IsEdge(px.gx, px.gy, px.grid)
    /\ LET raw == BorderDist(px.gx, px.gy, px.grid)
           den == 2 * (px.grid - 1)
           progress == ClampProgress(raw, den)
           color == GetColor(px.palette, progress, px.grid)
           rect == CellRect(px.gx, px.gy, px.size, px.grid)
       IN  px' = [NextCell(px) EXCEPT
                    !.img = [q \in Pixels(px.size) |-> IF q \in rect THEN color ELSE px.img[q]],
                    !.cells = @ \cup {[cell |-> <<px.gx, px.gy>>, raw |-> raw, den |-> den,
                                       progress |-> progress, color |-> color,
                                       branch |-> ColorBranch(px.palette, progress, den)]}]
    /\ UNCHANGED <<valVars, apiVars, nse, org>>

BorderReturn ==
    /\ px.pc = "border_loop"
    /\ px.gx = px.grid
    /\ px' = [px EXCEPT !.pc = "border_done"]
    /\ UNCHANGED <<valVars, apiVars, nse, org>>

NextBorder == BorderContinue \/ BorderCell \/ BorderReturn

SpecBorder == InitBorder /\ [][NextBorder]_vars

\* The colour the gradient has at progress num / den, by the stops
Lerp3(stops, num, den) ==
    IF Len(stops) = 2 THEN LerpColor(stops[1], stops[2], num, den)
    ELSE IF 2 * num < den THEN LerpColor(stops[1], stops[2], 2 * num, den)
    ELSE LerpColor(stops[2], stops[3], 2 * num - den, den)

\* C22 (SpecBorder): exactly the cells of the outer ring of the N x N grid are
\* coloured; cell (gx, gy) gets the colour of the gradient at progress
\* (min(gx, N-1-gx) + min(gy, N-1-gy)) / (2 * (N-1)) clamped to [0, 1]: between
\* stop0 and stop1 for two stops, and for three stops between stop0 and stop1 at
\* 2 * progress below 0.5 and between stop1 and stop2 at 2 * (progress - 0.5)
\* from there on; a pixel under no rectangle of the ring keeps its colour, a
\* pixel under several has the colour of the last one drawn.
C22_BorderGradient ==
    LET N == px.grid
        ring == {c \in (0..(N - 1)) \X (0..(N - 1)) :
                    c[1] = 0 \/ c[1] = N - 1 \/ c[2] = 0 \/ c[2] = N - 1}
        num(c) == Min(c[1], N - 1 - c[1]) + Min(c[2], N - 1 - c[2])
        colour(c) == Lerp3(px.palette, Max(0, Min(2 * (N - 1), num(c))), 2 * (N - 1))
        over(q) == {c \in ring : q \in CellRect(c[1], c[2], px.size, N)}
    IN  /\ px.pc \in {"border_loop", "border_done"} =>
              /\ {e.cell : e \in px.cells} \subseteq ring
              /\ \A e \in px.cells : e.color = colour(e.cell)
        /\ px.pc = "border_done" =>
              /\ {e.cell : e \in px.cells} = ring
              /\ \A q \in Pixels(px.size) :
                    IF over(q) = {} THEN px.img[q] = <<255, 255, 255>>
                    ELSE \E c \in over(q) :
                            /\ \A e \in over(q) : e[1] * N + e[2] <= c[1] * N + c[2]
                            /\ px.img[q] = colour(c)

\* a border of three stops is finished on a grid with cells inside the ring
C22_Witness ==
    /\ px.pc = "border_done"
    /\ Len(px.palette) = 3
    /\ px.grid = MaxGrid
    /\ \E q \in Pixels(px.size) : px.img[q] = <<255, 255, 255>>

\* C27 (SpecBorder): for every grid size N >= 2 the progress of every border
\* cell lies in [0, 1/4]; the clamp never changes it, and with three stops the
\* branch for progress >= 0.5 is never taken.
C27_ProgressBound ==
    px.pc \in {"border_loop", "border_done"} =>
        \A e \in px.cells :
            /\ 0 <= e.raw /\ 4 * e.raw <= e.den
            /\ e.progress = e.raw
            /\ e.branch # "else"

\* a border of three stops is finished with a cell at progress 1/4
C27_Witness ==
    /\ px.pc = "border_done"
    /\ Len(px.palette) = 3
    /\ \E e \in px.cells : 4 * e.raw = e.den /\ e.branch = "progress < 0.5"

-----------------------------------------------------------------------------
(* The noise renderers: features, parameters and the noise field.          *)
(* Floats are fixed-point: frequencies in millionths, amplitudes, noise    *)
(* values and fractions in thousandths, the threshold in ten-thousandths.  *)

\* a * b mod 2^16 without leaving 32 bits
MulMod(a, b) == ((((a \div 256) * b) % 65536) * 256 + (a % 256) * b) % 65536

\* a * b mod 2^18 without leaving 32 bits
MulMod18(a, b) == ((((a \div 512) * b) % 262144) * 512 + (a % 512) * b) % 262144

\* 25173^(2^i) mod 2^18 for i = 0..15
LcgSquares ==
    <<25173, 77881, 224433, 250465, 84161, 205185, 33537, 132609,
      3073, 6145, 12289, 24577, 49153, 98305, 196609, 131073>>

\* 25173^k mod 2^18 for k < 2^16, the product of the squares at the bits of k
LcgFactor(k, i) == IF (k \div (2 ^ i)) % 2 = 1 THEN LcgSquares[i + 1] ELSE 1
LcgPow18(k) ==
    MulMod18(MulMod18(MulMod18(MulMod18(LcgFactor(k, 0), LcgFactor(k, 1)),
                               MulMod18(LcgFactor(k, 2), LcgFactor(k, 3))),
                      MulMod18(MulMod18(LcgFactor(k, 4), LcgFactor(k, 5)),
                               MulMod18(LcgFactor(k, 6), LcgFactor(k, 7)))),
             MulMod18(MulMod18(MulMod18(LcgFactor(k, 8), LcgFactor(k, 9)),
                               MulMod18(LcgFactor(k, 10), LcgFactor(k, 11))),
                      MulMod18(MulMod18(LcgFactor(k, 12), LcgFactor(k, 13)),
                               MulMod18(LcgFactor(k, 14), LcgFactor(k, 15)))))

\* <<A, C>> with Lcg^k(s) = (A * s + C) mod 2^16: A = 25173^k and
\* C = 13849 * (25173^k - 1) / 25172, where 25172 = 4 * 6293 and 62141 is the
\* inverse of 6293 mod 2^16
LcgPow(k) ==
    LET p == LcgPow18(k % 65536)
    IN  <<p % 65536, MulMod(MulMod(((p - 1) \div 4) % 65536, 62141), 13849)>>

\* The k-th draw of a generator in state st (k >= 1), and its state after k draws
Draw(st, k) == LET p == LcgPow(k) IN (MulMod(p[1], st) + p[2]) % 65536

\* int(c, 16)
HexDigits == <<"0", "1", "2", "3", "4", "5", "6", "7", "8", "9", "a", "b", "c", "d", "e", "f">>
HexVal(c) == CHOOSE v \in 0..15 : HexDigits[v + 1] = c

CountIf(s, T(_)) == Cardinality({i \in 1..Len(s) : T(s[i])})

\* len(list(g)) of the itertools.groupby group that ends at position i
RECURSIVE RunAt(_, _)
RunAt(s, i) == IF i = 1 \/ s[i] # s[i - 1] THEN 1 ELSE 1 + RunAt(s, i - 1)

\* max(len(list(g)) for _, g in itertools.groupby(address))
MaxRepeat(s) ==
    CHOOSE m \in {RunAt(s, i) : i \in 1..Len(s)} : \A i \in 1..Len(s) : RunAt(s, i) <= m

\* extract_eth_features: the features of a validated identifier
Features(eth_address) ==
    LET address == Normalize(eth_address)
        IsOne(c) == c = "1"
        IsAlpha(c) == HexVal(c) >= 10
        IsDigit(c) == c \in Digits
        IsEven(c) == HexVal(c) % 2 = 0
        IsHigh(c) == HexVal(c) >= 8
    IN  [seed |-> FeatureSeed(eth_address),
         zero_count |-> CountZeros(address),
         one_count |-> CountIf(address, IsOne),
         letter_count |-> CountIf(address, IsAlpha),
         number_count |-> CountIf(address, IsDigit),
         max_repeat |-> MaxRepeat(address),
         len |-> Len(address),
         distinct |-> Cardinality({address[i] : i \in 1..Len(address)}),
         even_count |-> CountIf(address, IsEven),
         high_count |-> CountIf(address, IsHigh)]

\* zero_factor and one_factor without the min(1.0, ...)
ApplyEthFeaturesToNoise_NoCap(f) ==
    [noise_scale |-> 15000 - 400 * f.distinct,
     octaves |-> 4 + (f.zero_count * 4) \div 20,
     persistence |-> 400 + 15 * f.one_count,
     lacunarity |-> 1800 + 10 * f.letter_count,
     contrast |-> 900 + 10 * f.high_count,
     threshold |-> 4500 + 25 * f.even_count]

\* apply_eth_features_to_noise: noise_scale in millionths, persistence,
\* lacunarity and contrast in thousandths, threshold in ten-thousandths
ApplyEthFeaturesToNoise(f) ==
    [noise_scale |-> 15000 - 400 * f.distinct,
     octaves |-> 4 + (Min(20, f.zero_count) * 4) \div 20,
     persistence |-> 400 + 15 * Min(20, f.one_count),
     lacunarity |-> 1800 + 10 * f.letter_count,
     contrast |-> 900 + 10 * f.high_count,
     threshold |-> 4500 + 25 * f.even_count]

\* get_eth_color_scheme
GetEthColorScheme(f) ==
    [black_level |-> (60 - f.high_count) \div 2,
     white_level |-> 240 + (Min(20, f.zero_count) * 15) \div 20,
     threshold |-> 4500 + 25 * f.even_count]

\* Default color scheme if no Ethereum address is provided
DefaultColorScheme == [black_level |-> 0, white_level |-> 250, threshold |-> 5000]

\* frequency *= lacunarity, amplitude *= persistence
MulMilli(v, m) == (v \div 1000) * m + ((v % 1000) * m) \div 1000

\* generate_grid: grid_shape = (int(shape[0] * scale) + 1, int(shape[1] * scale) + 1)
GridSide(size, freq) == (size * freq) \div 1000000 + 1

\* generate_gradients: angles = 2 * pi * random; (cos, sin), angles in sixteenths of a turn
Cos16 == <<1000, 924, 707, 383, 0, -383, -707, -924, -1000, -924, -707, -383, 0, 383, 707, 924>>

Gradient(draw) ==
    LET a == draw \div 4096 IN <<Cos16[a + 1], Cos16[((a + 12) % 16) + 1]>>

\* interpolate(a, b, t): t = t * t * (3 - 2 * t); a + (b - a) * t
Interpolate(a, b, t) == a + ((b - a) * ((t * t * (3000 - 2 * t)) \div 1000000)) \div 1000

\* "if grid_y < grid_height - 1 and grid_x < grid_width - 1": the sample's cell
\* has its four corners in the octave's grid
InGrid(frequency, size, x, y) ==
    /\ (y * frequency) \div 1000000 < GridSide(size, frequency) - 1
    /\ (x * frequency) \div 1000000 < GridSide(size, frequency) - 1

\* the term one octave adds to noise[y, x], 0 when the sample is skipped; the
\* octave's grid takes the next side * side draws of st, row by row
OctaveTerm(st, frequency, amplitude, size, x, y) ==
    LET side == GridSide(size, frequency)
        grid_y == (y * frequency) \div 1000000
        grid_x == (x * frequency) \div 1000000
        dy == ((y * frequency) % 1000000) \div 1000
        dx == ((x * frequency) % 1000000) \div 1000
        g(gy, gx) == Gradient(Draw(st, gy * side + gx + 1))
        dot(gr, ax, ay) == (gr[1] * ax + gr[2] * ay) \div 1000
    IN  IF InGrid(frequency, size, x, y)
        THEN MulMilli(Interpolate(
                 Interpolate(dot(g(grid_y, grid_x), dx, dy),
                             dot(g(grid_y, grid_x + 1), dx - 1000, dy), dx),
                 Interpolate(dot(g(grid_y + 1, grid_x), dx, dy - 1000),
                             dot(g(grid_y + 1, grid_x + 1), dx - 1000, dy - 1000), dx),
                 dy), amplitude)
        ELSE 0

\* What numpy gives for a division by zero: nan for 0 / 0, inf or -inf otherwise
\* (a warning, no exception); the three stand outside every range of samples
NaN == 1000000001
Inf == 1000000000
Finite(v) == v \notin {NaN, Inf, -Inf}
Quotient(num, den) ==
    IF den # 0 THEN Trunc(num, den)
    ELSE IF num = 0 THEN NaN ELSE IF num > 0 THEN Inf ELSE -Inf

\* (noise / max_value + 1) / 2 for one sample
Norm(v, max_value) ==
    IF Finite(Quotient(v * 1000, max_value))
    THEN (Quotient(v * 1000, max_value) + 1000) \div 2
    ELSE Quotient(v * 1000, max_value)

\* factor = 1.0 - 0.5 * ((y - (height - bottom_area)) / bottom_area)
Factor(y, height, bottom_area) == 1000 - (500 * (y - (height - bottom_area))) \div bottom_area

\* noise[y, x] = 0.5 + (noise[y, x] - 0.5) * factor
Attenuate(v, factor) == IF Finite(v) THEN 500 + ((v - 500) * factor) \div 1000 ELSE v

\* noise = (noise / max_value + 1) / 2, then the bottom int(height * 0.1) rows
\* attenuated when vertical_fix is set
NormalizeNoise(noise, max_value, size, vertical_fix) ==
    [q \in Pixels(size) |->
        IF vertical_fix /\ q[2] >= size - size \div 10
        THEN Attenuate(Norm(noise[q], max_value), Factor(q[2], size, size \div 10))
        ELSE Norm(noise[q], max_value)]

\* Apply contrast adjustment: clip((noise - 0.5) * contrast + 0.5, 0, 1)
ApplyContrast(v, contrast) ==
    IF contrast = 1000 THEN v
    ELSE LET c == MulMilli(v - 500, contrast) + 500
         IN  IF c < 0 THEN 0 ELSE IF c > 1000 THEN 1000 ELSE c

\* int(np.interp(t, [0, 1], [lo, hi])) for t = num / den, clamped to [0, 1]
Interp(num, den, lo, hi) ==
    IF num <= 0 THEN lo ELSE IF num >= den THEN hi
    ELSE Trunc(lo * den + (hi - lo) * num, den)

\* the RGBA value the fill loop writes for one noise value
FillValue(noise_val, scheme) ==
    LET t == scheme.threshold
        v == 10 * noise_val
    IN  IF v < t
        THEN LET gray == IF t > 0 THEN Interp(v, t, scheme.black_level, 50)
                         ELSE scheme.black_level
                 opacity == IF t > 0 THEN Interp(v, t, 255, 180) ELSE 255
             IN  <<gray, gray, gray, opacity>>
        ELSE LET gray == IF t < 10000 THEN Interp(v - t, 10000 - t, 220, scheme.white_level)
                         ELSE 220
             IN  <<gray, gray, gray, 255>>

FillImage_LeftOnly(noise, size, scheme) ==
    [q \in Pixels(size) |->
        IF q[1] < size \div 2 THEN FillValue(noise[q], scheme) ELSE <<0, 0, 0, 0>>]

\* Fill image based on noise values: img_array starts as zeros; for x < size // 2
\* the loop writes the same value at [y, x] and at [y, size - x - 1]
FillImage(noise, size, scheme) ==
    [q \in Pixels(size) |->
        IF q[1] < size \div 2 THEN FillValue(noise[q], scheme)
        ELSE IF size - q[1] - 1 < size \div 2
             THEN FillValue(noise[<<size - q[1] - 1, q[2]>>], scheme)
             ELSE <<0, 0, 0, 0>>]

-----------------------------------------------------------------------------
(* SpecNoise: create_noise_rorschach, step by step                         *)

NoiseSizes == 3..MaxSize
ZeroB == Rep("0", 20) \o Rep("b", 20)
ZeroOneF == <<"0", "x">> \o Rep("0", 20) \o Rep("1", 10) \o Rep("F", 10)
NoiseAddrs == {NoneAddr, ValidA, ValidB, ZeroB, ZeroOneF, Short123}

\* noise_scale=0.009 is the default; 0.4 varies within a few pixels
NoiseScales == {9000, 400000}
Contrasts == {1000, 1300}

\* octaves=6, persistence=0.5, lacunarity=2.0
BaseParams(noise_scale, contrast, threshold) ==
    [noise_scale |-> noise_scale, octaves |-> 6, persistence |-> 500,
     lacunarity |-> 2000, contrast |-> contrast, threshold |-> threshold]

NoiseCall(fn, size, a, sd, sc, c, th) ==
    [pc |-> "start", fn |-> fn, size |-> size, addr |-> a, seed |-> sd,
     par |-> BaseParams(sc, c, th), scheme |-> DefaultColorScheme,
     vertical_fix |-> TRUE, octave |-> 0, frequency |-> 0, amplitude |-> 0,
     max_value |-> 0, noise |-> <<>>, img |-> <<>>]

InitNoise ==
    /\ ValIdle /\ PxIdle /\ OrgIdle
    /\ thr = [t \in Threads |-> IdleThread] /\ calls = 0 /\ first = <<>>
    /\ \E e \in {1, 2} : pyRandom = 10 + e /\ npRandom = 20 + e
    /\ \E size \in NoiseSizes, a \in NoiseAddrs, sd \in SeedArgs,
          sc \in NoiseScales, c \in Contrasts :
         /\ a # NoneAddr => sd = NoneSeed /\ sc = 9000 /\ c = 1000
         /\ nse = NoiseCall("create_noise_rorschach", size, a, sd, sc, c, 5000)

\* If Ethereum address is provided, extract features and modify parameters
NoiseParams ==
    /\ nse.pc = "start"
    /\ nse' = IF nse.addr = NoneAddr THEN [nse EXCEPT !.pc = "seed"]
              ELSE IF ~ExtractAccepts(nse.addr) THEN [nse EXCEPT !.pc = "ValueError"]
              ELSE LET f == Features(nse.addr)
                       mod == ApplyEthFeaturesToNoise(f)
                       cs == GetEthColorScheme(f)
                   IN  [nse EXCEPT !.par = IF nse.fn = "create_inkblot"
                                           THEN mod
                                           ELSE [mod EXCEPT !.threshold = cs.threshold],
                                   !.scheme = cs, !.seed = f.seed, !.pc = "seed"]
    /\ UNCHANGED <<valVars, apiVars, px, org>>

\* Set random seed if provided
NoiseSeed ==
    /\ nse.pc = "seed"
    /\ pyRandom' = ApplySeed(pyRandom, nse.seed)
    /\ npRandom' = IF nse.seed = NoneSeed THEN npRandom ELSE SeedState(Mod2p32(nse.seed))
    /\ nse' = [nse EXCEPT !.pc = "perlin"]
    /\ UNCHANGED <<valVars, thr, calls, first, px, org>>

\* noise = generate_perlin_noise(..., seed=seed, ...): np.random.seed(seed) refuses
\* a seed of 2^32 or more; noise = np.zeros(shape), amplitude = 1.0, frequency = scale
NoisePerlin ==
    /\ nse.pc = "perlin"
    /\ IF nse.seed # NoneSeed /\ ~Below2p32(nse.seed)
       THEN nse' = [nse EXCEPT !.pc = "ValueError"] /\ UNCHANGED npRandom
       ELSE /\ nse' = [nse EXCEPT !.noise = [q \in Pixels(nse.size) |-> 0],
                                  !.octave = 0, !.max_value = 0, !.amplitude = 1000,
                                  !.frequency = nse.par.noise_scale,
                                  !.pc = IF nse.par.octaves > 0 THEN "octave"
                                         ELSE "normalize"]
            /\ npRandom' = ApplySeed(npRandom, nse.seed)
    /\ UNCHANGED <<valVars, pyRandom, thr, calls, first, px, org>>

\* generate_perlin_noise, one round of "for _ in range(octaves)"
NoiseOctave ==
    /\ nse.pc = "octave"
    /\ nse' = [nse EXCEPT
                 !.noise = [q \in Pixels(nse.size) |->
                              nse.noise[q] + OctaveTerm(npRandom, nse.frequency, nse.amplitude,
                                                        nse.size, q[1], q[2])],
                 !.max_value = nse.max_value + nse.amplitude,
                 !.amplitude = MulMilli(nse.amplitude, nse.par.persistence),
                 !.frequency = MulMilli(nse.frequency, nse.par.lacunarity),
                 !.octave = nse.octave + 1,
                 !.pc = IF nse.octave + 1 = nse.par.octaves THEN "normalize" ELSE "octave"]
    /\ npRandom' = Draw(npRandom, GridSide(nse.size, nse.frequency)
                                    * GridSide(nse.size, nse.frequency))
    /\ UNCHANGED <<valVars, pyRandom, thr, calls, first, px, org>>

\* generate_perlin_noise: the normalization and the vertical fix
NoiseNormalize ==
    /\ nse.pc = "normalize"
    /\ nse' = [nse EXCEPT !.noise = NormalizeNoise(nse.noise, nse.max_value, nse.size,
                                                   nse.vertical_fix),
                          !.pc = IF nse.fn = "generate_perlin_noise" THEN "return"
                                 ELSE "fill"]
    /\ UNCHANGED <<valVars, apiVars, px, org>>

\* contrast adjustment, then the fill loop
NoiseFill ==
    /\ nse.pc = "fill"
    /\ LET noise == [q \in Pixels(nse.size) |-> ApplyContrast(nse.noise[q], nse.par.contrast)]
           scheme == IF nse.fn = "create_inkblot" \/ nse.addr # NoneAddr
                     THEN nse.scheme
                     ELSE [nse.scheme EXCEPT !.threshold = nse.par.threshold]
       IN  nse' = [nse EXCEPT !.noise = noise,
                              !.img = FillImage(noise, nse.size, scheme),
                              !.pc = IF nse.fn = "create_inkblot" THEN "base" ELSE "done"]
    /\ UNCHANGED <<valVars, apiVars, px, org>>

NextNoise ==
    NoiseParams \/ NoiseSeed \/ NoisePerlin \/ NoiseOctave \/ NoiseNormalize \/ NoiseFill

SpecNoise == InitNoise /\ [][NextNoise]_vars

\* C7: the raster create_noise_rorschach returns equals its left-right mirror
\* image in all four channels, for even and odd size, with an identifier or a seed.
C7_NoiseMirrorSymmetry ==
    (nse.pc = "done" /\ nse.fn = "create_noise_rorschach") =>
        \A q \in Pixels(nse.size) : nse.img[q] = nse.img[<<nse.size - 1 - q[1], q[2]>>]

C7_Witness ==
    /\ nse.pc = "done" /\ nse.fn = "create_noise_rorschach"
    /\ nse.size % 2 = 1
    /\ \E q \in Pixels(nse.size), r \in Pixels(nse.size) :
          /\ q[1] < nse.size \div 2 /\ r[1] < nse.size \div 2
          /\ nse.img[q][4] = 255 /\ nse.img[r][4] < 255

-----------------------------------------------------------------------------
(* SpecInkblot: create_inkblot, step by step                               *)

\* Image.resize((new_width, new_height), Image.LANCZOS) of a w x h image: every
\* output pixel takes the source pixel under its centre, the right half sampled
\* as the mirror image of the left half (the filter itself is mirror-symmetric)
SourceIndex(i, n, new_n) ==
    IF 2 * i + 1 <= new_n THEN ((2 * i + 1) * n) \div (2 * new_n)
    ELSE n - 1 - ((2 * (new_n - 1 - i) + 1) * n) \div (2 * new_n)

\* paste(im, box, mask): each band is blended with the mask's alpha
Blend(src, dst, a) == (src * a + dst * (255 - a) + 127) \div 255

\* _center_and_scale_inkblot, the locals of a call on an image that is not empty:
\* the bounding box of alpha > 0, scale_factor = min(available / inkblot_width,
\* available / inkblot_height) = available / the longer side, the new dimensions
\* int(side * scale_factor) and the paste position; whitespace_margin in thousandths
CenterLocals(img, size, whitespace_margin) ==
    LET solid == {q \in Pixels(size) : img[q][4] > 0}
        xs == {q[1] : q \in solid}
        ys == {q[2] : q \in solid}
        xmin == CHOOSE v \in xs : \A u \in xs : v <= u
        xmax == CHOOSE v \in xs : \A u \in xs : v >= u
        ymin == CHOOSE v \in ys : \A u \in ys : v <= u
        ymax == CHOOSE v \in ys : \A u \in ys : v >= u
        inkblot_width == xmax - xmin + 1
        inkblot_height == ymax - ymin + 1
        available == size * (1000 - 2 * whitespace_margin)
        longer == IF inkblot_width > inkblot_height THEN inkblot_width ELSE inkblot_height
        new_width == Trunc(inkblot_width * available, 1000 * longer)
        new_height == Trunc(inkblot_height * available, 1000 * longer)
    IN  [xmin |-> xmin, xmax |-> xmax, ymin |-> ymin, ymax |-> ymax,
         inkblot_width |-> inkblot_width, inkblot_height |-> inkblot_height,
         available |-> available, new_width |-> new_width, new_height |-> new_height,
         paste_x |-> (size - new_width) \div 2, paste_y |-> (size - new_height) \div 2]

\* The centering step without its "Empty image, return as is" branch
CenterAndScaleInkblot_NoEmptyCheck(img, size, whitespace_margin) ==
    LET solid == {q \in Pixels(size) : img[q][4] > 0}
        xs == {q[1] : q \in solid}
        ys == {q[2] : q \in solid}
        xmin == CHOOSE v \in xs : \A u \in xs : v <= u
        xmax == CHOOSE v \in xs : \A u \in xs : v >= u
        ymin == CHOOSE v \in ys : \A u \in ys : v <= u
        ymax == CHOOSE v \in ys : \A u \in ys : v >= u
        inkblot_width == xmax - xmin + 1
        inkblot_height == ymax - ymin + 1
        available == size * (1000 - 2 * whitespace_margin)
        longer == IF inkblot_width > inkblot_height THEN inkblot_width ELSE inkblot_height
        new_width == Trunc(inkblot_width * available, 1000 * longer)
        new_height == Trunc(inkblot_height * available, 1000 * longer)
        paste_x == (size - new_width) \div 2
        paste_y == (size - new_height) \div 2
        resized(i, j) == img[<<xmin + SourceIndex(i, inkblot_width, new_width),
                               ymin + SourceIndex(j, inkblot_height, new_height)>>]
    IN  IF solid = {} THEN <<"IndexError">>
        ELSE IF new_width <= 0 \/ new_height <= 0 THEN <<"ValueError">>
        ELSE <<"ok",
               [q \in Pixels(size) |->
                  IF /\ paste_x <= q[1] /\ q[1] < paste_x + new_width
                     /\ paste_y <= q[2] /\ q[2] < paste_y + new_height
                  THEN LET v == resized(q[1] - paste_x, q[2] - paste_y)
                       IN  [b \in 1..4 |-> Blend(v[b], 255, v[4])]
                  ELSE <<255, 255, 255, 255>>]>>

\* _center_and_scale_inkblot: <<"ok", image>>, or <<"ValueError">> when resize
\* is asked for an empty size
CenterAndScaleInkblot(img, size, whitespace_margin) ==
    LET solid == {q \in Pixels(size) : img[q][4] > 0}
        c == CenterLocals(img, size, whitespace_margin)
        resized(i, j) == img[<<c.xmin + SourceIndex(i, c.inkblot_width, c.new_width),
                               c.ymin + SourceIndex(j, c.inkblot_height, c.new_height)>>]
    IN  IF solid = {} THEN <<"ok", img>>
        ELSE IF c.new_width <= 0 \/ c.new_height <= 0 THEN <<"ValueError">>
        ELSE <<"ok",
               [q \in Pixels(size) |->
                  IF /\ c.paste_x <= q[1] /\ q[1] < c.paste_x + c.new_width
                     /\ c.paste_y <= q[2] /\ q[2] < c.paste_y + c.new_height
                  THEN LET v == resized(q[1] - c.paste_x, q[2] - c.paste_y)
                       IN  [b \in 1..4 |-> Blend(v[b], 255, v[4])]
                  ELSE <<255, 255, 255, 255>>]>>

\* whitespace_margin=0.15 is the default; detail_intensity=0.7 is the default
Margins == {150, 100}
Intensities == {700, 1000}
InkblotAddrs == {NoneAddr, ValidA, ZeroB, ZeroOneF, Short123}

InitInkblot ==
    /\ ValIdle /\ PxIdle /\ OrgIdle
    /\ thr = [t \in Threads |-> IdleThread] /\ calls = 0 /\ first = <<>>
    /\ \E e \in {1, 2} : pyRandom = 10 + e /\ npRandom = 20 + e
    /\ \E size \in NoiseSizes, a \in InkblotAddrs, sc \in NoiseScales,
          rd \in BOOLEAN, wm \in Margins, di \in Intensities :
         /\ a # NoneAddr => sc = 9000
         /\ ~rd => di = 700
         /\ nse = NoiseCall("create_inkblot", size, a, NoneSeed, sc, 1300, 4800)
                    @@ [render_details |-> rd, whitespace_margin |-> wm,
                        detail_intensity |-> di, ink |-> {}, selected |-> <<>>,
                        stack |-> <<>>]

\* If we don't want edge details, center the inkblot and return
ReturnPlain ==
    /\ nse.pc = "base"
    /\ ~nse.render_details
    /\ LET res == CenterAndScaleInkblot(nse.img, nse.size, nse.whitespace_margin) IN
       nse' = IF res[1] = "ok" THEN [nse EXCEPT !.img = res[2], !.pc = "done"]
              ELSE [nse EXCEPT !.pc = res[1]]
    /\ UNCHANGED <<valVars, apiVars, px, org>>

\* Ink pixels are dark and opaque
InkMask(img, size) == {q \in Pixels(size) : img[q][4] > 128 /\ img[q][1] < 128}

\* mask.filter(FIND_EDGES) > 128: the 3 x 3 kernel 8 * centre - neighbours gives
\* at least 255 at an ink pixel with a clear neighbour; the outermost rows and
\* columns are copied from the mask
EdgeSet(mask, size) ==
    {q \in mask :
        \/ q[1] \in {0, size - 1} \/ q[2] \in {0, size - 1}
        \/ \E d \in {-1, 0, 1} \X {-1, 0, 1} : <<q[1] + d[1], q[2] + d[2]>> \notin mask}

\* edge_points: for y in range(size): for x in range(size)
EdgePoints(edges, size) ==
    [i \in 1..Cardinality(edges) |->
        CHOOSE q \in edges :
            Cardinality({r \in edges : r[2] * size + r[1] < q[2] * size + q[1]}) = i - 1]

\* _randbelow(n), random.uniform(lo, hi) in thousandths
RandBelow(draw, n) == (draw * n) \div 65536
Uniform(draw, lo, hi) == lo + (draw * (hi - lo)) \div 65536

\* random.sample, n <= setsize: result[i] = pool[j]; pool[j] = pool[n - i - 1]
RECURSIVE SamplePool(_, _, _, _)
SamplePool(st, k, pool, cnt) ==
    IF cnt = 0 THEN [k |-> k, sel |-> <<>>]
    ELSE LET j == RandBelow(Draw(st, k + 1), Len(pool)) + 1
             rest == SamplePool(st, k + 1,
                                SubSeq([pool EXCEPT ![j] = pool[Len(pool)]], 1, Len(pool) - 1),
                                cnt - 1)
         IN  [k |-> rest.k, sel |-> <<pool[j]>> \o rest.sel]

\* random.sample, n > setsize: draw again while j is already selected
RECURSIVE SampleReject(_, _, _, _, _)
SampleReject(st, k, population, chosen, cnt) ==
    IF cnt = 0 THEN [k |-> k, sel |-> <<>>]
    ELSE LET j == RandBelow(Draw(st, k + 1), Len(population)) + 1 IN
         IF j \in chosen THEN SampleReject(st, k + 1, population, chosen, cnt)
         ELSE LET rest == SampleReject(st, k + 1, population, chosen \cup {j}, cnt - 1)
              IN  [k |-> rest.k, sel |-> <<population[j]>> \o rest.sel]

\* random.sample(population, cnt): setsize = 21 for cnt <= 5
RandomSample(st, population, cnt) ==
    IF Len(population) <= 21 THEN SamplePool(st, 0, population, cnt)
    ELSE SampleReject(st, 0, population, {}, cnt)

\* cos and sin of a direction in sixteenths of a turn
Cos(a) == Cos16[(a % 16) + 1]
Sin(a) == Cos16[((a + 12) % 16) + 1]

\* direction += random.uniform(-0.2, 0.2): a sixteenth of a turn either way, or none
Wobble(draw) == CASE draw < 16384 -> -1 [] draw >= 49152 -> 1 [] OTHER -> 0

\* max(0, min(width - 1, v)) on positions in thousandths of a pixel
ClampPos(v, size) == IF v < 0 THEN 0 ELSE IF v > (size - 1) * 1000 THEN (size - 1) * 1000 ELSE v

PixelOf(pos) == <<pos[1] \div 1000, pos[2] \div 1000>>

\* draw.line([p, r], width): the pixels of a segment about one pixel long; a line
\* of width 2 also covers the pixel below and the pixel to the right
Line(p, r, wide, size) ==
    LET a == PixelOf(p)
        b == PixelOf(r)
        thin == {a, b, <<(a[1] + b[1]) \div 2, (a[2] + b[2]) \div 2>>}
    IN  IF wide
        THEN thin \cup ({<<q[1] + 1, q[2]>> : q \in thin} \cap Pixels(size))
                  \cup ({<<q[1], q[2] + 1>> : q \in thin} \cap Pixels(size))
        ELSE thin

\* draw.ellipse around (sx, sy) with the given radius
Disc(sx, sy, radius, size) ==
    {q \in Pixels(size) :
        (q[1] * 1000 - sx) * (q[1] * 1000 - sx) + (q[2] * 1000 - sy) * (q[2] * 1000 - sy)
            <= radius * radius}

\* a walk still to be made: where it stands, its direction, the rounds of its
\* loop (length) and the round it is at (i); for spots, length counts the spots left
DetailTask(kind, pos, direction, length, i, depth, wide) ==
    [kind |-> kind, pos |-> pos, direction |-> direction, length |-> length,
     i |-> i, depth |-> depth, wide |-> wide]

\* add_drip(draw, x, y, ..., length_range=(2, 8), width_range=(1, 2)): down with
\* weight 0.5, right 0.25, left 0.25; only the first segment keeps width 2
AddDrip(st, k, x, y) ==
    LET drip_length == RandInt(Draw(st, k + 1), 2, 8)
        drip_width == RandInt(Draw(st, k + 2), 1, 2)
        u == Random64(Draw(st, k + 3))
        heading == (IF u < 32 THEN 4 ELSE IF u < 42 THEN 0 ELSE IF u < 52 THEN 8
                    ELSE IF u < 58 THEN 0 ELSE 8) + Wobble(Draw(st, k + 4))
    IN  [k |-> k + 4,
         task |-> DetailTask("drip", <<1000 * x, 1000 * y>>, heading, drip_length, 0, 0,
                             drip_width = 2)]

\* add_drip, one round of "for i in range(drip_length)": the waviness and one
\* step per axis, then the segment it adds to the drip
DripStep(st, task, size) ==
    LET d1 == task.direction + Wobble(Draw(st, 1))
        new_x == ClampPos(task.pos[1] + (Cos(d1) * Uniform(Draw(st, 2), 800, 1200)) \div 1000, size)
        new_y == ClampPos(task.pos[2] + (Sin(d1) * Uniform(Draw(st, 3), 800, 1200)) \div 1000, size)
    IN  [k |-> 3,
         pix |-> Line(task.pos, <<new_x, new_y>>, task.wide, size),
         push |-> IF task.i + 1 < task.length
                  THEN <<[task EXCEPT !.pos = <<new_x, new_y>>, !.direction = d1,
                                      !.i = @ + 1, !.wide = FALSE]>>
                  ELSE <<>>]

\* add_tendril(draw, x, y, ..., length_range=(3, 10), branch_chance=0.3, max_depth=2)
AddTendril(st, k, x, y) ==
    [k |-> k + 2,
     task |-> DetailTask("tendril", <<1000 * x, 1000 * y>>, Draw(st, k + 2) \div 4096,
                         RandInt(Draw(st, k + 1), 3, 10), 0, 0, TRUE)]

\* _create_tendril, one round of "for i in range(length)": from the third round
\* on a branch is tried, with probability branch_chance=0.3 and only while
\* depth < max_depth=2; the branch turns by the first or the second of two drawn
\* angles, picked by random.choice, and runs before the next round
CreateTendril(st, task, size) ==
    LET d1 == task.direction + Wobble(Draw(st, 1))
        step == Uniform(Draw(st, 2), 800, 1200)
        new_pos == <<ClampPos(task.pos[1] + (Cos(d1) * step) \div 1000, size),
                     ClampPos(task.pos[2] + (Sin(d1) * step) \div 1000, size)>>
        k1 == IF task.i > 1 THEN 3 ELSE 2
        branches == task.i > 1 /\ Random64(Draw(st, 3)) < 20 /\ task.depth < 2
        turn == IF Draw(st, k1 + 3) < 32768 THEN 1 + Draw(st, k1 + 1) \div 32768
                ELSE -(1 + Draw(st, k1 + 2) \div 32768)
        branch_length == IF (task.length * 6) \div 10 > 2 THEN (task.length * 6) \div 10 ELSE 2
    IN  [k |-> IF branches THEN k1 + 3 ELSE k1,
         pix |-> Line(task.pos, new_pos, task.i = 0 /\ task.depth = 0, size),
         push |-> (IF branches
                   THEN <<DetailTask("tendril", new_pos, d1 + turn, branch_length, 0,
                                     task.depth + 1, FALSE)>>
                   ELSE <<>>)
                  \o (IF task.i + 1 < task.length
                      THEN <<[task EXCEPT !.pos = new_pos, !.direction = d1, !.i = @ + 1]>>
                      ELSE <<>>)]

\* add_spots(draw, x, y, ..., count_range=(1, 3), radius_range=(1, 2), max_distance=15)
AddSpots(st, k, x, y) ==
    [k |-> k + 1,
     task |-> DetailTask("spots", <<1000 * x, 1000 * y>>, 0, RandInt(Draw(st, k + 1), 1, 3),
                         0, 0, FALSE)]

\* add_spots, one round of "for _ in range(num_spots)": a circle with probability
\* 0.7, otherwise an irregular octagon of about the radius
SpotStep(st, task, size) ==
    LET distance == Uniform(Draw(st, 1), 2000, 15000)
        heading == Draw(st, 2) \div 4096
        spot_x == ClampPos(task.pos[1] + (distance * Cos(heading)) \div 1000, size)
        spot_y == ClampPos(task.pos[2] + (distance * Sin(heading)) \div 1000, size)
        spot_radius == Uniform(Draw(st, 3), 1000, 2000)
        circle == Random64(Draw(st, 4)) < 45
        r_var == MulMilli(spot_radius, Uniform(Draw(st, 5), 800, 1200))
    IN  [k |-> IF circle THEN 4 ELSE 12,
         pix |-> Disc(spot_x, spot_y, IF circle THEN spot_radius ELSE r_var, size),
         push |-> IF task.i + 1 < task.length THEN <<[task EXCEPT !.i = @ + 1]>> ELSE <<>>]

\* one round of "for x, y in selected_points": detail_roll, then the call
AddDetail(st, x, y) ==
    LET detail_roll == Random64(Draw(st, 1)) IN
    IF detail_roll < 26 THEN AddDrip(st, 1, x, y)
    ELSE IF detail_roll < 45 THEN AddTendril(st, 1, x, y)
    ELSE AddSpots(st, 1, x, y)

\* one round of the loop the walk on top of the stack is in
DetailStep(st, task, size) ==
    IF task.kind = "drip" THEN DripStep(st, task, size)
    ELSE IF task.kind = "tendril" THEN CreateTendril(st, task, size)
    ELSE SpotStep(st, task, size)

\* result.filter(GaussianBlur(0.5)) of black ink on transparent white: every band
\* is averaged with weights 1-2-1 in each direction, the border extended
BlurResult(ink, size) ==
    LET w(d) == (2 - (IF d[1] = 0 THEN 0 ELSE 1)) * (2 - (IF d[2] = 0 THEN 0 ELSE 1))
        near(q) == {d \in {-1, 0, 1} \X {-1, 0, 1} :
                      <<Clamp(q[1] + d[1], size), Clamp(q[2] + d[2], size)>> \in ink}
        RECURSIVE Weight(_)
        Weight(ds) == IF ds = {} THEN 0
                      ELSE LET d == CHOOSE e \in ds : TRUE IN w(d) + Weight(ds \ {d})
    IN  [q \in Pixels(size) |->
            LET a == (255 * Weight(near(q))) \div 16
            IN  <<255 - a, 255 - a, 255 - a, a>>]

\* mask, edges, edge_points and selected_points = random.sample(edge_points, ...)
FindEdges ==
    /\ nse.pc = "base"
    /\ nse.render_details
    /\ LET mask == InkMask(nse.img, nse.size)
           edge_points == EdgePoints(EdgeSet(mask, nse.size), nse.size)
           num_points == Trunc(Len(edge_points) * nse.detail_intensity, 10000)
           res == RandomSample(pyRandom, edge_points, Min(num_points, Len(edge_points)))
       IN  /\ nse' = [nse EXCEPT !.ink = mask, !.selected = res.sel, !.pc = "details"]
           /\ pyRandom' = Draw(pyRandom, res.k)
    /\ UNCHANGED <<valVars, npRandom, thr, calls, first, px, org>>

\* Add details to the edges: the next selected point, its roll and its call
DrawDetail ==
    /\ nse.pc = "details"
    /\ nse.selected # <<>>
    /\ nse.stack = <<>>
    /\ LET point == Head(nse.selected)
           res == AddDetail(pyRandom, point[1], point[2])
       IN  /\ nse' = [nse EXCEPT !.stack = <<res.task>>, !.selected = Tail(@)]
           /\ pyRandom' = Draw(pyRandom, res.k)
    /\ UNCHANGED <<valVars, npRandom, thr, calls, first, px, org>>

\* one round of the innermost running loop of add_drip, _create_tendril or add_spots
DrawStep ==
    /\ nse.pc = "details"
    /\ nse.stack # <<>>
    /\ LET res == DetailStep(pyRandom, Head(nse.stack), nse.size)
       IN  /\ nse' = [nse EXCEPT !.ink = @ \cup res.pix, !.stack = res.push \o Tail(@)]
           /\ pyRandom' = Draw(pyRandom, res.k)
    /\ UNCHANGED <<valVars, npRandom, thr, calls, first, px, org>>

\* subtle blur, then center and scale the inkblot
ReturnDetailed ==
    /\ nse.pc = "details"
    /\ nse.selected = <<>>
    /\ nse.stack = <<>>
    /\ LET res == CenterAndScaleInkblot(BlurResult(nse.ink, nse.size), nse.size,
                                        nse.whitespace_margin) IN
       nse' = IF res[1] = "ok" THEN [nse EXCEPT !.img = res[2], !.pc = "done"]
              ELSE [nse EXCEPT !.pc = res[1]]
    /\ UNCHANGED <<valVars, apiVars, px, org>>

NextInkblot == NoiseParams \/ NoiseSeed \/ NoisePerlin \/ NoiseOctave \/ NoiseNormalize
                 \/ NoiseFill \/ ReturnPlain \/ FindEdges \/ DrawDetail \/ DrawStep
                 \/ ReturnDetailed

SpecInkblot == InitInkblot /\ [][NextInkblot]_vars

\* C6: the raster create_inkblot returns equals its left-right mirror image,
\* with render_details on and off, for every identifier, size and margin.
C6_InkblotMirrorSymmetry ==
    (nse.pc = "done" /\ nse.fn = "create_inkblot") =>
        \A q \in Pixels(nse.size) : nse.img[q] = nse.img[<<nse.size - 1 - q[1], q[2]>>]

-----------------------------------------------------------------------------
(* The organic renderer: shapes on the half canvas.  Positions and radii   *)
(* are floats in the code and thousandths of a pixel here.                 *)

\* int(v) of a value in thousandths
IntOf(v) == Trunc(v, 1000)

Abs(v) == IF v < 0 THEN -v ELSE v

\* the half canvas Image.new('RGBA', (half_width, size))
HalfPixels(size) == (0..(size \div 2 - 1)) \X (0..(size - 1))

\* cos and sin of 2 * pi * i / 45, and 1.0 + 0.15 sin(2a) + 0.12 sin(3.5a)
\* + 0.08 sin(5a) + 0.05 sin(7.5a) + 0.03 sin(11a) at those angles, in thousandths
Cos45 ==
    <<1000, 990, 961, 914, 848, 766, 669, 559, 438, 309, 174, 35, -105, -242, -375,
      -500, -616, -719, -809, -883, -940, -978, -998, -998, -978, -940, -883, -809, -719, -616,
      -500, -375, -242, -105, 35, 174, 309, 438, 559, 669, 766, 848, 914, 961, 990>>

Sin45 ==
    <<0, 139, 276, 407, 530, 643, 743, 829, 899, 951, 985, 999, 995, 970, 927,
      866, 788, 695, 588, 469, 342, 208, 70, -70, -208, -342, -469, -588, -695, -788,
      -866, -927, -970, -995, -999, -985, -951, -899, -829, -743, -643, -530, -407, -276, -139>>

BaseVariation ==
    <<1000, 1222, 1303, 1270, 1226, 1184, 1111, 1041, 1018, 1003, 952, 924, 977, 1036, 989,
      879, 836, 888, 946, 963, 965, 941, 868, 813, 880, 1039, 1157, 1196, 1241, 1317,
      1329, 1224, 1068, 925, 801, 726, 769, 901, 979, 939, 884, 910, 968, 982, 977>>

\* one round of "for i in range(shapes_count - 1)": the next surrounding shape
\* as <<x, y, radius>>; acc holds the positions so far, the central one first
ShapePosition(st, k, size, i, acc) ==
    LET half_width == size \div 2
        main_radius == 1000 * (size \div 7)
        angle == Draw(st, k + 1) \div 4096
        distance_factor == Uniform(Draw(st, k + 2), 400, 1200)
        relative == i > 1 /\ Random64(Draw(st, k + 3)) < 39
        k1 == IF i > 1 THEN k + 3 ELSE k + 2
        ref == acc[RandBelow(Draw(st, k1 + 1), i) + 1]
        base == IF relative THEN ref
                ELSE <<1000 * (half_width \div 2), 1000 * (size \div 2), 2 * main_radius>>
        reach == MulMilli(base[3], distance_factor)
        radius == IF relative THEN MulMilli(ref[3], Uniform(Draw(st, k1 + 2), 500, 900))
                  ELSE MulMilli(main_radius, Uniform(Draw(st, k1 + 1), 300, 800))
        shape_x == base[1] + 1000 * IntOf(MulMilli(reach, Cos(angle)))
        shape_y == base[2] + 1000 * IntOf(MulMilli(reach, Sin(angle)))
    IN  [k |-> IF relative THEN k1 + 2 ELSE k1 + 1,
         pos |-> <<Max(radius, Min(1000 * half_width - radius, shape_x)),
                   Max(radius, Min(1000 * size - radius, shape_y)),
                   radius>>]

\* generate_flowing_shape(center_x, center_y, radius, 45): the smoothed points;
\* point i takes draw k + i for its noise
GenerateFlowingShape(st, k, c) ==
    LET r_variation(i) == Max(800, BaseVariation[i] + Uniform(Draw(st, k + i), -50, 50))
        point(i) == <<c[1] + 1000 * IntOf(MulMilli(MulMilli(c[3], r_variation(i)), Cos45[i])),
                      c[2] + 1000 * IntOf(MulMilli(MulMilli(c[3], r_variation(i)), Sin45[i]))>>
        prev(i) == IF i = 1 THEN 45 ELSE i - 1
        next(i) == IF i = 45 THEN 1 ELSE i + 1
    IN  [i \in 1..45 |->
            <<Trunc(point(prev(i))[1] + point(i)[1] + point(next(i))[1], 3000),
              Trunc(point(prev(i))[2] + point(i)[2] + point(next(i))[2], 3000)>>]

\* the pixels of a straight line from a to b
SegPixels(a, b) ==
    LET dx == b[1] - a[1]
        dy == b[2] - a[2]
        n == Max(Abs(dx), Abs(dy))
    IN  IF n = 0 THEN {a}
        ELSE {<<a[1] + (2 * i * dx + n) \div (2 * n), a[2] + (2 * i * dy + n) \div (2 * n)>> :
                 i \in 0..n}

\* draw.polygon(points, fill): the outline and what an odd number of edges encloses
Polygon(points, canvas) ==
    LET n == Len(points)
        nxt(j) == points[(j % n) + 1]
        outline == UNION {SegPixels(points[j], nxt(j)) : j \in 1..n}
        crosses(q, j) ==
            LET a == points[j]
                b == nxt(j)
            IN  /\ (a[2] > q[2]) # (b[2] > q[2])
                /\ IF b[2] > a[2]
                   THEN (q[1] - a[1]) * (b[2] - a[2]) < (q[2] - a[2]) * (b[1] - a[1])
                   ELSE (q[1] - a[1]) * (b[2] - a[2]) > (q[2] - a[2]) * (b[1] - a[1])
    IN  {q \in canvas : q \in outline \/ Cardinality({j \in 1..n : crosses(q, j)}) % 2 = 1}

\* int(math.sqrt(v))
Isqrt(v) == CHOOSE r \in 0..1500 : r * r <= v /\ v < (r + 1) * (r + 1)

\* math.atan2(dy, dx) to the nearest sixteenth of a turn
Atan16(dx, dy) ==
    CHOOSE a \in 0..15 : \A b \in 0..15 :
        dx * Cos(a) + dy * Sin(a) > dx * Cos(b) + dy * Sin(b)
        \/ (dx * Cos(a) + dy * Sin(a) = dx * Cos(b) + dy * Sin(b) /\ a <= b)

\* draw.ellipse around the pixel (cx, cy) with radii rx, ry in thousandths
\* (compared in tenths of a pixel)
Ellipse(canvas, cx, cy, rx, ry) ==
    LET a == rx \div 100
        b == ry \div 100
    IN  {q \in canvas :
            100 * (q[1] - cx) * (q[1] - cx) * b * b + 100 * (q[2] - cy) * (q[2] - cy) * a * a
                <= a * a * b * b}

\* draw.line([a, b], width): width 2 also covers the pixels to the right and
\* below, width 3 and more the pixels on every side
ThickLine(canvas, a, b, thickness) ==
    LET thin == SegPixels(a, b)
        offs == CASE thickness <= 1 -> {<<0, 0>>}
                  [] thickness = 2 -> {<<0, 0>>, <<1, 0>>, <<0, 1>>}
                  [] OTHER -> {<<0, 0>>, <<1, 0>>, <<0, 1>>, <<-1, 0>>, <<0, -1>>}
    IN  {<<q[1] + d[1], q[2] + d[2]>> : q \in thin, d \in offs} \cap canvas

ClampTo(v, hi) == Max(0, Min(v, hi))

\* pixels drawn, joined to what the rest of a loop draws
Joined(pix, rest) == [k |-> rest.k, pix |-> pix \cup rest.pix]

\* create_whispy_strand: new_x = x + int(segment_length * cos), new_y likewise,
\* both kept on the canvas
StrandPoint(pos, segment_length, current_angle, size) ==
    <<ClampTo(pos[1] + IntOf(MulMilli(segment_length, Cos(current_angle))), size \div 2 - 1),
      ClampTo(pos[2] + IntOf(MulMilli(segment_length, Sin(current_angle))), size - 1)>>

\* create_whispy_strand from step i on: the angle wavers, each segment is
\* 1.5 +- 0.3 long, the points stay on the canvas; only the first segment is 2 wide
RECURSIVE CreateWhispyStrand(_, _, _, _, _, _, _)
RECURSIVE StrandTo(_, _, _, _, _, _, _, _)
CreateWhispyStrand(st, k, pos, angle, i, length, size) ==
    IF i > length THEN [k |-> k, pix |-> {}]
    ELSE StrandTo(st, k + 2, pos,
                  StrandPoint(pos, 1500 + Uniform(Draw(st, k + 2), -300, 300),
                              angle + Wobble(Draw(st, k + 1)), size),
                  angle + Wobble(Draw(st, k + 1)), i, length, size)

StrandTo(st, k, pos, new_pos, current_angle, i, length, size) ==
    Joined(ThickLine(HalfPixels(size), pos, new_pos, IF i = 1 THEN 2 ELSE 1),
           CreateWhispyStrand(st, k, new_pos, current_angle, i + 1, length, size))

\* create_blob_bridge: pos_x = int(x1 + dx * t), pos_y = int(y1 + dy * t)
StrandStart(p1, p2, t) ==
    <<IntOf(1000 * p1[1] + (p2[1] - p1[1]) * t), IntOf(1000 * p1[2] + (p2[2] - p1[2]) * t)>>

\* create_blob_bridge, the texture: texture_count strands off the bridge, each
\* at t = uniform(0.2, 0.8), turned by uniform(-0.7, 0.7), 5 to 15 steps long
RECURSIVE BridgeTexture(_, _, _, _, _, _)
RECURSIVE TextureNext(_, _, _, _, _, _)
BridgeTexture(st, k, p1, p2, todo, size) ==
    IF todo = 0 THEN [k |-> k, pix |-> {}]
    ELSE TextureNext(st, p1, p2, todo, size,
                     CreateWhispyStrand(st, k + 3,
                                        StrandStart(p1, p2, Uniform(Draw(st, k + 1), 200, 800)),
                                        Atan16(p2[1] - p1[1], p2[2] - p1[2])
                                          + RandInt(Draw(st, k + 2), -2, 2),
                                        1, RandInt(Draw(st, k + 3), 5, 15), size))

TextureNext(st, p1, p2, todo, size, strand) ==
    Joined(strand.pix, BridgeTexture(st, strand.k, p1, p2, todo - 1, size))

\* steps = max(3, int(dist / 10)); max_width = max(5, int(dist * 0.15));
\* min_width = max(3, int(max_width * 0.6))
BridgeSteps(dist) == Max(3, dist \div 10)
MaxWidth(dist) == Max(5, (dist * 15) \div 100)
MinWidth(dist) == Max(3, (MaxWidth(dist) * 6) \div 10)

\* wave_factor = sin(t * pi) * 0.2 at t = i / steps; sin(t * pi) is taken as 4t(1 - t)
WaveFactor(i, steps) == (800 * i * (steps - i)) \div (steps * steps)

\* width = min_width + int((max_width - min_width) * (1.0 - 2.0 * abs(t - 0.5)))
BlobWidth(dist, i, steps) ==
    MinWidth(dist) + Trunc((MaxWidth(dist) - MinWidth(dist)) * (steps - Abs(2 * i - steps)), steps)

\* create_blob_bridge, one round of "for i in range(steps + 1)": a circle
Blob(st, k, p1, p2, dist, steps, i, size) ==
    Ellipse(HalfPixels(size),
            IntOf(1000 * p1[1] + (1000 * (p2[1] - p1[1]) * i) \div steps
                  + Uniform(Draw(st, k + 2 * i + 1), -WaveFactor(i, steps), WaveFactor(i, steps))
                      * dist),
            IntOf(1000 * p1[2] + (1000 * (p2[2] - p1[2]) * i) \div steps
                  + Uniform(Draw(st, k + 2 * i + 2), -WaveFactor(i, steps), WaveFactor(i, steps))
                      * dist),
            1000 * BlobWidth(dist, i, steps), 1000 * BlobWidth(dist, i, steps))

\* create_blob_bridge(draw, start, end): overlapping circles along the path, the
\* widest in the middle, then the texture
BridgeSpan(st, k, p1, p2, dist, steps, size) ==
    Joined(UNION {Blob(st, k, p1, p2, dist, steps, i, size) : i \in 0..steps},
           BridgeTexture(st, k + 2 * (steps + 1) + 1, p1, p2,
                         RandInt(Draw(st, k + 2 * (steps + 1) + 1), 2, 4), size))

BridgeOver(st, k, p1, p2, dist, size) == BridgeSpan(st, k, p1, p2, dist, BridgeSteps(dist), size)

CreateBlobBridge(st, k, p1, p2, size) ==
    BridgeOver(st, k, p1, p2,
               Isqrt((p2[1] - p1[1]) * (p2[1] - p1[1]) + (p2[2] - p1[2]) * (p2[2] - p1[2])),
               size)

\* the j-th sampled pair: p1 = shape1[random.randint(0, len(shape1)-1)], p2 likewise
PairFirst(st, k, shapes, i, j) == shapes[i + 1][RandInt(Draw(st, k + 2 * j), 0, 44) + 1]
PairSecond(st, k, shapes, connect_to, j) ==
    shapes[connect_to + 1][RandInt(Draw(st, k + 2 * j + 1), 0, 44) + 1]

Dist2(p, r) == (p[1] - r[1]) * (p[1] - r[1]) + (p[2] - r[2]) * (p[2] - r[2])

PairDist2(st, k, shapes, i, connect_to, j) ==
    Dist2(PairFirst(st, k, shapes, i, j), PairSecond(st, k, shapes, connect_to, j))

\* "if dist < min_dist": the first of the closest sampled pairs
ClosestPair(st, k, shapes, i, connect_to) ==
    CHOOSE j \in 1..10 : \A m \in 1..10 :
        \/ PairDist2(st, k, shapes, i, connect_to, j) < PairDist2(st, k, shapes, i, connect_to, m)
        \/ /\ PairDist2(st, k, shapes, i, connect_to, j) = PairDist2(st, k, shapes, i, connect_to, m)
           /\ j <= m

\* Only bridge if shapes aren't already overlapping: min_dist > 10
BridgePair(st, k, p1, p2, size) ==
    IF Dist2(p1, p2) > 100 THEN CreateBlobBridge(st, k + 21, p1, p2, size)
    ELSE [k |-> k + 21, pix |-> {}]

ConnectPair(st, k, shapes, i, connect_to, best, size) ==
    BridgePair(st, k, PairFirst(st, k, shapes, i, best),
               PairSecond(st, k, shapes, connect_to, best), size)

ConnectTo(st, k, shapes, i, connect_to, size) ==
    ConnectPair(st, k, shapes, i, connect_to, ClosestPair(st, k, shapes, i, connect_to), size)

\* one round of "for i in range(1, len(shapes))": connect shape i to a random
\* earlier shape when the closest of 10 sampled point pairs is more than 10 apart
ConnectShape(st, k, shapes, i, size) ==
    ConnectTo(st, k, shapes, i, RandInt(Draw(st, k + 1), 0, i - 1), size)

\* A tendril that only continues and never forks
CreateNaturalTendril_NoFork(st, k, start, angle, depth, size) ==
    [k |-> k + 1,
     pix |-> ThickLine(HalfPixels(size), start, start, Max(1, depth - 1)),
     calls |-> <<[kind |-> "call", at |-> start, angle |-> angle, depth |-> depth - 1]>>]

\* One activation of create_natural_tendril(draw, start, angle, depth) with
\* depth > 0: its segment, and the calls it makes from the junction, the main
\* branch first; a secondary branch draws its angle when its turn comes.  Angles
\* are in sixteenths of a turn: uniform(-0.2, 0.2) / depth turns the segment only
\* at depth 1
CreateNaturalTendril(st, k, start, angle, depth, size) ==
    LET length == 4 + depth * RandInt(Draw(st, k + 1), 2, 4)
        curve_angle == angle + Trunc(Wobble(Draw(st, k + 2)), depth)
        end_point == <<ClampTo(start[1] + IntOf(length * Cos(curve_angle)), size \div 2 - 1),
                       ClampTo(start[2] + IntOf(length * Sin(curve_angle)), size - 1)>>
        fork_position == Uniform(Draw(st, k + 3), 600, 800)
        junction ==
            <<ClampTo(start[1] + IntOf(MulMilli(length * fork_position, Cos(curve_angle))),
                      size \div 2 - 1),
              ClampTo(start[2] + IntOf(MulMilli(length * fork_position, Sin(curve_angle))),
                      size - 1)>>
        k1 == IF depth > 2 THEN k + 4 ELSE k + 3
        branch_count == IF depth > 2 THEN RandInt(Draw(st, k + 4), 2, 3) ELSE 2
        main_branch_angle == curve_angle + Wobble(Draw(st, k1 + 1))
    IN  [k |-> k1 + 1,
         pix |-> ThickLine(HalfPixels(size), start, end_point, Max(1, depth - 1)),
         calls |-> <<[kind |-> "call", at |-> junction, angle |-> main_branch_angle,
                      depth |-> depth - 1]>>
                   \o [j \in 1..(branch_count - 1) |->
                         [kind |-> "branch", at |-> junction, angle |-> curve_angle,
                          depth |-> depth]]]

\* A secondary branch that is called with the depth of its caller
SecondaryBranch_SameDepth(st, k, task) ==
    [kind |-> "call", at |-> task.at, angle |-> task.angle, depth |-> task.depth]

\* branch_angle = curve_angle + random.uniform(0.4, 1.0) * random.choice([-1, 1]):
\* one or two sixteenths of a turn, either way; then the call with depth - 1
SecondaryBranch(st, k, task) ==
    LET turn == RandInt(Draw(st, k + 1), 1, 2)
        sign == IF RandBelow(Draw(st, k + 2), 2) = 0 THEN -1 ELSE 1
    IN  [kind |-> "call", at |-> task.at, angle |-> task.angle + sign * turn,
         depth |-> task.depth - 1]

\* sector = int(((atan2(dy, dx) + pi) / (2 * pi) * 8) % 8): the octant of (dx, dy),
\* counted from the negative x axis
Sector(dx, dy) ==
    IF dy < 0
    THEN IF dx < 0 THEN (IF -dy < -dx THEN 0 ELSE 1)
         ELSE (IF dx < -dy THEN 2 ELSE 3)
    ELSE IF dy = 0 /\ dx < 0 THEN 0
    ELSE IF dx > 0 THEN (IF dy < dx THEN 4 ELSE 5)
    ELSE IF dy = 0 THEN 4
    ELSE IF -dx < dy THEN 6 ELSE 7

\* add_distributed_tendrils, the choice of start points: the shape points farther
\* than a quarter of the width from the centre, the farthest first (the sort is
\* stable), split into 8 sectors, the first tendrils_per_sector of each
TendrilStarts(shapes, size) ==
    LET width == size \div 2
        center_x == width \div 2
        center_y == size \div 2
        n == 45 * Len(shapes)
        pt(m) == shapes[((m - 1) \div 45) + 1][((m - 1) % 45) + 1]
        d2(m) == (pt(m)[1] - center_x) * (pt(m)[1] - center_x)
                   + (pt(m)[2] - center_y) * (pt(m)[2] - center_y)
        edge_points == {m \in 1..n : 16 * d2(m) > width * width}
        tendril_count == Min(20, Cardinality(edge_points))
        tendrils_per_sector == Max(1, tendril_count \div 8)
        sector(s) == {m \in edge_points : Sector(pt(m)[1] - center_x, pt(m)[2] - center_y) = s}
        rank(s, m) == Cardinality({o \in sector(s) :
                                     d2(o) > d2(m) \/ (d2(o) = d2(m) /\ o < m)})
        used(s) == Min(tendrils_per_sector, Cardinality(sector(s)))
        before(s) == IF s = 0 THEN 0 ELSE used(0) + (IF s = 1 THEN 0 ELSE used(1)
                       + (IF s = 2 THEN 0 ELSE used(2) + (IF s = 3 THEN 0 ELSE used(3)
                       + (IF s = 4 THEN 0 ELSE used(4) + (IF s = 5 THEN 0 ELSE used(5)
                       + (IF s = 6 THEN 0 ELSE used(6)))))))
        at(j) == LET s == CHOOSE t \in 0..7 : before(t) < j /\ j <= before(t) + used(t)
                 IN  pt(CHOOSE m \in sector(s) : rank(s, m) = j - before(s) - 1)
    IN  [j \in 1..(before(7) + used(7)) |-> at(j)]

\* add_distributed_tendrils: a start point closer than 20 pixels to a stored end
\* point is skipped
TooClose(start_point, endpoints) ==
    \E i \in 1..Len(endpoints) : LET e == endpoints[i] IN
        (e[1] - start_point[1]) * (e[1] - start_point[1])
          + (e[2] - start_point[2]) * (e[2] - start_point[2]) < 400

\* add_distributed_tendrils: the root call for a start point, outward from the
\* centre with uniform(-0.3, 0.3) added, depth = random.randint(2, 4)
RootCall(st, k, start_point, size) ==
    [kind |-> "call", at |-> start_point,
     angle |-> Atan16(start_point[1] - (size \div 2) \div 2, start_point[2] - size \div 2)
                 + Wobble(Draw(st, k + 1)),
     depth |-> RandInt(Draw(st, k + 2), 2, 4)]

\* add_distributed_tendrils: the approximate end point stored after the tendril
TendrilEnd(st, k, root) ==
    LET length == 4 + root.depth * RandInt(Draw(st, k + 1), 2, 4)
    IN  <<root.at[1] + IntOf(length * Cos(root.angle)),
          root.at[2] + IntOf(length * Sin(root.angle))>>

\* current_angle += random.uniform(-0.15, 0.15): less than half a sixteenth of a
\* turn; a sixteenth either way one time in eight each
Waver(draw) == CASE draw < 8192 -> -1 [] draw >= 57344 -> 1 [] OTHER -> 0

\* add_controlled_spots, the drip under a spot: round i draws k + i and turns
\* by its waver; current_angle after round i
DripTurned(st, k, angle, i) ==
    angle + Cardinality({j \in 1..i : Waver(Draw(st, k + j)) = 1})
          - Cardinality({j \in 1..i : Waver(Draw(st, k + j)) = -1})

\* int(1.5 * math.cos(current_angle)) and int(1.5 * math.sin(current_angle)),
\* each -1, 0 or 1
SpotDripStep(a) == <<IntOf(MulMilli(1500, Cos(a))), IntOf(MulMilli(1500, Sin(a)))>>

\* (current_x, current_y) after round i if no round has left the canvas
DripAt(st, k, pos, angle, i) ==
    <<pos[1] + Cardinality({j \in 1..i : SpotDripStep(DripTurned(st, k, angle, j))[1] = 1})
             - Cardinality({j \in 1..i : SpotDripStep(DripTurned(st, k, angle, j))[1] = -1}),
      pos[2] + Cardinality({j \in 1..i : SpotDripStep(DripTurned(st, k, angle, j))[2] = 1})
             - Cardinality({j \in 1..i : SpotDripStep(DripTurned(st, k, angle, j))[2] = -1})>>

\* the rounds completed before the safety check breaks the loop
DripMade(off, drops) ==
    IF off = {} THEN drops ELSE (CHOOSE i \in off : \A j \in off : i <= j) - 1

\* the drip's segments, thickness max(1, int(size * 0.7 * (1 - i / drip_length) ** 0.8)):
\* only a size 3 spot starts its drip 2 wide
DripDrawn(st, k, pos, angle, drops, spot_size, size, made) ==
    [k |-> IF made = drops THEN k + drops ELSE k + made + 1,
     pix |-> UNION {ThickLine(HalfPixels(size), DripAt(st, k, pos, angle, i - 1),
                              DripAt(st, k, pos, angle, i),
                              IF i = 1 /\ spot_size = 3 THEN 2 ELSE 1) : i \in 1..made}]

SpotDrip(st, k, pos, angle, drops, spot_size, size) ==
    DripDrawn(st, k, pos, angle, drops, spot_size, size,
              DripMade({i \in 1..drops : DripAt(st, k, pos, angle, i) \notin HalfPixels(size)},
                       drops))

\* distance = min(main_radius * uniform(0.5, 1.0) ** 0.5 * 2.0, main_radius * 2.0)
SpotDistance(draw, size) ==
    Min((size \div 7) * 2 * Isqrt(1000 * Uniform(draw, 500, 1000)), (size \div 7) * 2000)

\* size = random.randint(1, 2) with probability 0.9, else random.randint(2, 3)
SpotSize(roll, draw) == IF Random64(roll) < 58 THEN RandInt(draw, 1, 2) ELSE RandInt(draw, 2, 3)

\* tiny_shape: eight points around (x, y), each at its own r_var
TinyPoint(x, y, r, i) ==
    <<x + IntOf(MulMilli(r, Cos(2 * (i - 1)))), y + IntOf(MulMilli(r, Sin(2 * (i - 1))))>>

\* the mark of a spot: a tiny irregular shape with probability 0.3, else an ellipse
SpotMark(st, k, x, y, spot_size, irregular, size) ==
    IF irregular
    THEN Polygon([i \in 1..8 |->
                     TinyPoint(x, y, spot_size * Uniform(Draw(st, k + 5 + i), 800, 1200), i)],
                 HalfPixels(size))
    ELSE Ellipse(HalfPixels(size), x, y, spot_size * Uniform(Draw(st, k + 6), 900, 1100),
                 spot_size * Uniform(Draw(st, k + 7), 900, 1100))

\* Add a drip from some spots: with probability 0.2, drip_length in 2..10,
\* mostly downward
SpotDripMaybe(st, k, x, y, spot_size, size) ==
    IF Random64(Draw(st, k + 1)) < 13
    THEN SpotDrip(st, k + 3, <<x, y>>, 4 + Wobble(Draw(st, k + 3)),
                  RandInt(Draw(st, k + 2), 2, 10), spot_size, size)
    ELSE [k |-> k + 1, pix |-> {}]

SpotWithDrip(mark, drip) == [k |-> drip.k, pix |-> mark \cup drip.pix]

SpotSized(st, k, x, y, spot_size, irregular, size) ==
    SpotWithDrip(SpotMark(st, k, x, y, spot_size, irregular, size),
                 SpotDripMaybe(st, IF irregular THEN k + 13 ELSE k + 7, x, y, spot_size, size))

\* Skip if out of bounds
SpotAt(st, k, x, y, size) ==
    IF <<x, y>> \notin HalfPixels(size) THEN [k |-> k + 2, pix |-> {}]
    ELSE SpotSized(st, k, x, y, SpotSize(Draw(st, k + 3), Draw(st, k + 4)),
                   Random64(Draw(st, k + 5)) < 20, size)

SpotFrom(st, k, distance, angle, size) ==
    SpotAt(st, k, (size \div 2) \div 2 + IntOf(MulMilli(distance, Cos(angle))),
           size \div 2 + IntOf(MulMilli(distance, Sin(angle))), size)

\* add_controlled_spots, one round of "for _ in range(spot_count)": a spot out
\* of bounds is skipped after its two draws
AddSpot(st, k, size) ==
    SpotFrom(st, k, SpotDistance(Draw(st, k + 2), size), Draw(st, k + 1) \div 4096, size)

\* create_flowing_drip: drift_bias += uniform(-0.1, 0.1), limited to +-0.3
\* (thousandths of a radian)
DriftBias(drift_bias, draw) == Max(-300, Min(300, drift_bias + Uniform(draw, -100, 100)))

\* create_flowing_drip: current_angle less the main direction; past 60% of a
\* sideways drip the angle is pulled a tenth of the way toward pi/2
FlowAngle(drift, draw, i, length, direction) ==
    LET swing == MulMilli(drift + Uniform(draw, -150, 150),
                          IF direction = "down" THEN 500 ELSE 300)
    IN  IF 10 * i > 6 * length /\ direction # "down"
        THEN (9 * swing) \div 10 + (IF direction = "right" THEN 157 ELSE -157)
        ELSE swing

\* create_flowing_drip: int(step_length * cos) along the main direction; cos(d)
\* is taken as 1 - d * d / 2
FlowAdvance(off, draw) ==
    IntOf(MulMilli(Uniform(draw, 1000, 1500), 1000 - (off * off) \div 2000))

\* sin(d) for a small d, in thousandths: d - d^3 / 6
SinSmall(off) == off - Trunc(off * off * off, 6000000)

\* create_flowing_drip: int(step_length * sin) of the angle off the main direction
FlowCross(off, draw) == IntOf(MulMilli(Uniform(draw, 1000, 1500), SinSmall(off)))

\* create_flowing_drip: (new_x, new_y) for the angle main_direction + off:
\* down is pi/2 (cos = -sin off, sin = cos off), right is 0, left is pi
FlowPoint(pos, advance, cross, direction) ==
    IF direction = "down" THEN <<pos[1] - cross, pos[2] + advance>>
    ELSE IF direction = "right" THEN <<pos[1] + advance, pos[2] + cross>>
    ELSE <<pos[1] - advance, pos[2] - cross>>

\* create_flowing_drip: the new point of round i, from the draws k + 1 .. k + 3
FlowNew(st, k, pos, drift, i, length, direction) ==
    FlowPoint(pos,
              FlowAdvance(FlowAngle(drift, Draw(st, k + 2), i, length, direction),
                          Draw(st, k + 3)),
              FlowCross(FlowAngle(drift, Draw(st, k + 2), i, length, direction),
                        Draw(st, k + 3)),
              direction)

\* A test that only looks at the bottom of the canvas
OffCanvas_BottomOnly(new_pos, size) == new_pos[2] >= size

\* "Stop if out of bounds": new_y >= height or new_x < 0 or new_x >= width
OffCanvas(new_pos, size) ==
    new_pos[2] >= size \/ new_pos[1] < 0 \/ new_pos[1] >= size \div 2

\* points.append((new_x, new_y))
FlowAppend(pos, flow) == [k |-> flow.k, points |-> <<pos>> \o flow.points]

\* create_flowing_drip, "for i in range(length)": the points of the drip from
\* round i on; a round takes three draws and stops the drip at the first point
\* off the canvas
RECURSIVE FlowSteps(_, _, _, _, _, _, _, _)
RECURSIVE FlowFrom(_, _, _, _, _, _, _, _, _)
FlowSteps(st, k, pos, drift_bias, i, length, direction, size) ==
    IF i >= length THEN [k |-> k, points |-> <<pos>>]
    ELSE FlowFrom(st, k + 3, pos,
                  FlowNew(st, k, pos, DriftBias(drift_bias, Draw(st, k + 1)), i, length,
                          direction),
                  DriftBias(drift_bias, Draw(st, k + 1)), i, length, direction, size)

FlowFrom(st, k, pos, new_pos, drift, i, length, direction, size) ==
    IF OffCanvas(new_pos, size)
    THEN [k |-> k, points |-> <<pos>>]
    ELSE FlowAppend(pos, FlowSteps(st, k, new_pos, drift, i + 1, length, direction, size))

\* create_flowing_drip: max(1, int(3 * (1 - t ** 1.5))) with t = i / (n - 1) is
\* 3 at the start, 2 up to t = 0.4807 and 1 after that
WidthVal(i, n) == IF i = 0 THEN 3 ELSE IF 10000 * i <= 4807 * (n - 1) THEN 2 ELSE 1

\* create_flowing_drip, "for i in range(len(points) - 1)": the segments
DrawFlow(flow, size) ==
    [k |-> flow.k,
     pix |-> UNION {ThickLine(HalfPixels(size), flow.points[i + 1], flow.points[i + 2],
                              WidthVal(i, Len(flow.points))) :
                       i \in 0..(Len(flow.points) - 2)}]

CreateFlowingDrip(st, k, x, y, length, direction, size) ==
    DrawFlow(FlowSteps(st, k + 2, <<x, y>>, Uniform(Draw(st, k + 2), -200, 200), 0,
                       length, direction, size),
             size)

\* add_simple_drips, the two scans: the bottom edges above the last 20 rows
\* column by column, then the right and left edges between columns 10 and
\* width - 10 row by row, each as <<order, x, y, direction>>
DripEdges(ink, size) ==
    LET width == size \div 2
        height == size
    IN  {<<q[1] * height + q[2], q[1], q[2], "down">> :
            q \in {r \in ink : r[2] < height - 20 /\ <<r[1], r[2] + 1>> \notin ink}}
        \cup {<<width * height + q[2] * width + q[1], q[1], q[2], "right">> :
            q \in {r \in ink : r[1] >= 10 /\ r[1] < width - 10 /\ <<r[1] + 1, r[2]>> \notin ink}}
        \cup {<<width * height + q[2] * width + q[1], q[1], q[2], "left">> :
            q \in {r \in ink : /\ r[1] >= 10 /\ r[1] < width - 10
                               /\ <<r[1] + 1, r[2]>> \in ink /\ <<r[1] - 1, r[2]>> \notin ink}}

\* the edge the scan meets first
FirstEdge(edges) == CHOOSE c \in edges : \A d \in edges : c[1] <= d[1]

\* add_simple_drips: every edge takes one draw, 0.08 of the bottom edges and 0.04
\* of the side edges become drip points
TakeEdge(e, draw, acc) ==
    IF Random64(draw) < (IF e[4] = "down" THEN 6 ELSE 3) THEN Append(acc, e) ELSE acc

RECURSIVE ScanEdges(_, _, _, _)
ScanEdges(st, k, edges, acc) ==
    IF edges = {} THEN [k |-> k, points |-> acc]
    ELSE ScanEdges(st, k + 1, edges \ {FirstEdge(edges)},
                   TakeEdge(FirstEdge(edges), Draw(st, k + 1), acc))

\* drip_length = random.randint(5, 30) downward, random.randint(3, 10) sideways
DripLength(e, draw) == IF e[4] = "down" THEN RandInt(draw, 5, 30) ELSE RandInt(draw, 3, 10)

\* add_simple_drips, "for x, y, direction in drip_points" from point j on, the
\* pixels drawn so far in acc
RECURSIVE DripsLoop(_, _, _, _, _, _)
RECURSIVE DripsNext(_, _, _, _, _)
DripsLoop(st, k, points, j, size, acc) ==
    IF j > Len(points) THEN [k |-> k, pix |-> acc]
    ELSE DripsNext(st, points, j, size,
                   [k |-> k, pix |-> acc,
                    drip |-> CreateFlowingDrip(st, k + 1, points[j][2], points[j][3],
                                               DripLength(points[j], Draw(st, k + 1)),
                                               points[j][4], size)])

DripsNext(st, points, j, size, did) ==
    DripsLoop(st, did.drip.k, points, j + 1, size, did.pix \cup did.drip.pix)

\* add_simple_drips(draw, img, width, height)
DripsFrom(st, scan, size) == DripsLoop(st, scan.k, scan.points, 1, size, {})

AddSimpleDrips(st, k, ink, size) ==
    DripsFrom(st, ScanEdges(st, k, DripEdges(ink, size), <<>>), size)

\* add_ink_texture: GaussianBlur(0.5) on the alpha band (every colour band is 0),
\* weights 1-2-1 in each direction with the border extended; then every pixel
\* above 200, row by row, is scaled by its own uniform(0.94, 1.0)
AddInkTexture(st, ink, size) ==
    LET width == size \div 2
        w(d) == (2 - (IF d[1] = 0 THEN 0 ELSE 1)) * (2 - (IF d[2] = 0 THEN 0 ELSE 1))
        near(q) == {d \in {-1, 0, 1} \X {-1, 0, 1} :
                      <<Clamp(q[1] + d[1], width), Clamp(q[2] + d[2], size)>> \in ink}
        RECURSIVE Weight(_)
        Weight(ds) == IF ds = {} THEN 0
                      ELSE LET d == CHOOSE e \in ds : TRUE IN w(d) + Weight(ds \ {d})
        blurred == [q \in HalfPixels(size) |-> (255 * Weight(near(q))) \div 16]
        solid == {q \in HalfPixels(size) : blurred[q] > 200}
        turn(q) == Cardinality({r \in solid : r[2] < q[2] \/ (r[2] = q[2] /\ r[1] <= q[1])})
    IN  [k |-> Cardinality(solid),
         alpha |-> [q \in HalfPixels(size) |->
                      IF q \in solid
                      THEN IntOf(blurred[q] * Uniform(Draw(st, turn(q)), 940, 1000))
                      ELSE blurred[q]]]

-----------------------------------------------------------------------------
(* SpecOrganic: create_realistic_rorschach, step by step.  The half canvas *)
(* is the set of its black pixels until the texture turns it into alpha    *)
(* values; the full canvas holds <<gray, alpha>> per pixel.                *)

MaxOrgSize == 8
OrgSizes == 4..MaxOrgSize
OrgAddrs == {NoneAddr, ValidA, ValidB, ZeroB, ZeroOneF, Short123}

\* Image.new('RGBA', (size, size), (255, 255, 255, 255))
White == <<255, 255>>

\* canvas.paste(im, box, im) of one pixel <<gray, alpha>> over another
PasteOver(src, dst) == <<Blend(src[1], dst[1], src[2]), Blend(src[2], dst[2], src[2])>>

\* Step 3: the left half and its ImageOps.mirror pasted at 0 and at half_width
MirrorHalves(alpha, size) ==
    LET half_width == size \div 2
        left_half(x, y) == <<0, alpha[<<x, y>>]>>
    IN  [q \in Pixels(size) |->
            IF q[1] < half_width THEN PasteOver(left_half(q[1], q[2]), White)
            ELSE IF q[1] < 2 * half_width
            THEN PasteOver(left_half(half_width - 1 - (q[1] - half_width), q[2]), White)
            ELSE White]

\* Step 4: the top half and its ImageOps.flip pasted at 0 and at size // 2
FourQuadrant(img, size) ==
    LET half == size \div 2 IN
    [q \in Pixels(size) |->
        IF q[2] < half THEN PasteOver(img[q], White)
        ELSE IF q[2] < 2 * half
        THEN PasteOver(img[<<q[1], half - 1 - (q[2] - half)>>], White)
        ELSE White]

\* new_size = int(size * 0.75) and x_offset = y_offset = (size - new_size) // 2
NewSize(size) == (3 * size) \div 4
Offset(size) == (size - NewSize(size)) \div 2

\* Step 5: the resized copy pasted at the offset, then convert('RGB')
ResizeAndPaste(quad, size) ==
    LET new_size == NewSize(size)
        off == Offset(size)
        resized(i, j) == quad[<<SourceIndex(i, size, new_size), SourceIndex(j, size, new_size)>>]
    IN  [q \in Pixels(size) |->
            IF /\ q[1] >= off /\ q[1] < off + new_size
               /\ q[2] >= off /\ q[2] < off + new_size
            THEN PasteOver(resized(q[1] - off, q[2] - off), White)[1]
            ELSE 255]

InitOrganic ==
    /\ ValIdle /\ PxIdle /\ NseIdle
    /\ thr = [t \in Threads |-> IdleThread] /\ calls = 0 /\ first = <<>>
    /\ \E e \in {1, 2} : pyRandom = 10 + e /\ npRandom = 20 + e
    /\ \E size \in OrgSizes, a \in OrgAddrs :
         org = [pc |-> "start", size |-> size, addr |-> a, cnt |-> 0, pos |-> <<>>,
                shapes |-> <<>>, ink |-> {},
                starts |-> <<>>, endpoints |-> <<>>, root |-> <<>>, stack |-> <<>>,
                segments |-> 0, todo |-> 0,
                alpha |-> <<>>, img |-> <<>>, quad |-> <<>>, final |-> <<>>]

\* seed, np_seed = set_seed_from_eth_address(eth_address); apply_seed(seed, np_seed)
OrgSeed ==
    /\ org.pc = "start"
    /\ pyRandom' = ApplySeed(pyRandom, UtilsSeed(org.addr))
    /\ npRandom' = IF org.addr = NoneAddr THEN npRandom
                   ELSE SeedState(Mod2p32(UtilsSeed(org.addr)))
    /\ org' = [org EXCEPT !.pc = "shapes"]
    /\ UNCHANGED <<valVars, thr, calls, first, px, nse>>

\* generate_interconnected_shapes: shapes_count and the central shape
OrgShapeCount ==
    /\ org.pc = "shapes"
    /\ org' = [org EXCEPT !.cnt = RandInt(Draw(pyRandom, 1), 4, 7),
                          !.pos = <<<<1000 * ((org.size \div 2) \div 2), 1000 * (org.size \div 2),
                                      1000 * (org.size \div 7)>>>>,
                          !.pc = "position"]
    /\ pyRandom' = Draw(pyRandom, 1)
    /\ UNCHANGED <<valVars, npRandom, thr, calls, first, px, nse>>

\* generate_interconnected_shapes: the next surrounding shape
OrgPosition ==
    /\ org.pc = "position"
    /\ LET placed == ShapePosition(pyRandom, 0, org.size, Len(org.pos) - 1, org.pos)
       IN  /\ org' = [org EXCEPT !.pos = Append(org.pos, placed.pos),
                                 !.pc = IF Len(org.pos) + 1 = org.cnt THEN "polygons"
                                        ELSE "position"]
           /\ pyRandom' = Draw(pyRandom, placed.k)
    /\ UNCHANGED <<valVars, npRandom, thr, calls, first, px, nse>>

\* generate_interconnected_shapes, "for pos in shape_positions":
\* shape = generate_flowing_shape(shape_x, shape_y, radius, 45); shapes.append(shape)
OrgShape ==
    /\ org.pc = "polygons"
    /\ org' = [org EXCEPT !.shapes = Append(org.shapes,
                                            GenerateFlowingShape(pyRandom, 0,
                                                                 org.pos[Len(org.shapes) + 1])),
                          !.pc = "polygon"]
    /\ pyRandom' = Draw(pyRandom, 45)
    /\ UNCHANGED <<valVars, npRandom, thr, calls, first, px, nse>>

\* generate_interconnected_shapes: draw.polygon(shape, fill=(0, 0, 0, 255))
OrgPolygon ==
    /\ org.pc = "polygon"
    /\ org' = [org EXCEPT !.ink = org.ink \cup Polygon(org.shapes[Len(org.shapes)],
                                                       HalfPixels(org.size)),
                          !.todo = 1,
                          !.pc = IF Len(org.shapes) = org.cnt THEN "connect" ELSE "polygons"]
    /\ UNCHANGED <<valVars, apiVars, px, nse>>

\* generate_interconnected_shapes: the bridge from shape org.todo to an earlier one
OrgConnect ==
    /\ org.pc = "connect"
    /\ LET bridge == ConnectShape(pyRandom, 0, org.shapes, org.todo, org.size)
       IN  /\ org' = [org EXCEPT !.ink = org.ink \cup bridge.pix,
                                 !.todo = org.todo + 1,
                                 !.pc = IF org.todo + 1 = org.cnt THEN "tendrils" ELSE "connect"]
           /\ pyRandom' = Draw(pyRandom, bridge.k)
    /\ UNCHANGED <<valVars, npRandom, thr, calls, first, px, nse>>

\* add_distributed_tendrils: the edge points, sorted and split into sectors
OrgTendrilStarts ==
    /\ org.pc = "tendrils"
    /\ LET found == TendrilStarts(org.shapes, org.size)
       IN  org' = [org EXCEPT !.starts = found, !.endpoints = <<>>, !.segments = 0,
                              !.pc = IF found = <<>> THEN "spots" ELSE "tendril"]
    /\ UNCHANGED <<valVars, apiVars, px, nse>>

\* add_distributed_tendrils: the next start point, skipped or given its root call
OrgTendril ==
    /\ org.pc = "tendril"
    /\ IF TooClose(Head(org.starts), org.endpoints)
       THEN /\ org' = [org EXCEPT !.starts = Tail(org.starts),
                                  !.pc = IF Len(org.starts) = 1 THEN "spots" ELSE "tendril"]
            /\ UNCHANGED pyRandom
       ELSE LET root == RootCall(pyRandom, 0, Head(org.starts), org.size)
            IN  /\ org' = [org EXCEPT !.root = root, !.stack = <<root>>, !.segments = 0,
                                      !.pc = "grow"]
                /\ pyRandom' = Draw(pyRandom, 2)
    /\ UNCHANGED <<valVars, npRandom, thr, calls, first, px, nse>>

\* create_natural_tendril: the innermost pending call runs up to its first
\* recursive call; "if depth <= 0: return"
OrgGrow ==
    /\ org.pc = "grow"
    /\ org.stack # <<>>
    /\ LET task == Head(org.stack) IN
       IF task.kind = "branch"
       THEN /\ org' = [org EXCEPT !.stack = <<SecondaryBranch(pyRandom, 0, task)>>
                                              \o Tail(org.stack)]
            /\ pyRandom' = Draw(pyRandom, 2)
       ELSE IF task.depth <= 0
       THEN /\ org' = [org EXCEPT !.stack = Tail(org.stack)]
            /\ UNCHANGED pyRandom
       ELSE LET seg == CreateNaturalTendril(pyRandom, 0, task.at, task.angle, task.depth,
                                            org.size)
            IN  /\ org' = [org EXCEPT !.ink = org.ink \cup seg.pix,
                                      !.segments = org.segments + 1,
                                      !.stack = seg.calls \o Tail(org.stack)]
                /\ pyRandom' = Draw(pyRandom, seg.k)
    /\ UNCHANGED <<valVars, npRandom, thr, calls, first, px, nse>>

\* add_distributed_tendrils: the tendril has returned; its end point is stored
OrgTendrilEnd ==
    /\ org.pc = "grow"
    /\ org.stack = <<>>
    /\ org' = [org EXCEPT !.endpoints = Append(org.endpoints, TendrilEnd(pyRandom, 0, org.root)),
                          !.starts = Tail(org.starts),
                          !.pc = IF Len(org.starts) = 1 THEN "spots" ELSE "tendril"]
    /\ pyRandom' = Draw(pyRandom, 1)
    /\ UNCHANGED <<valVars, npRandom, thr, calls, first, px, nse>>

\* add_controlled_spots: spot_count = random.randint(40, 60)
OrgSpotCount ==
    /\ org.pc = "spots"
    /\ org' = [org EXCEPT !.todo = RandInt(Draw(pyRandom, 1), 40, 60), !.pc = "spot"]
    /\ pyRandom' = Draw(pyRandom, 1)
    /\ UNCHANGED <<valVars, npRandom, thr, calls, first, px, nse>>

\* add_controlled_spots: one spot, with its drip
OrgSpot ==
    /\ org.pc = "spot"
    /\ LET made == AddSpot(pyRandom, 0, org.size)
       IN  /\ org' = [org EXCEPT !.ink = org.ink \cup made.pix,
                                 !.todo = org.todo - 1,
                                 !.pc = IF org.todo = 1 THEN "drips" ELSE "spot"]
           /\ pyRandom' = Draw(pyRandom, made.k)
    /\ UNCHANGED <<valVars, npRandom, thr, calls, first, px, nse>>

OrgDrips ==
    /\ org.pc = "drips"
    /\ LET drips == AddSimpleDrips(pyRandom, 0, org.ink, org.size)
       IN  /\ org' = [org EXCEPT !.ink = org.ink \cup drips.pix, !.pc = "texture"]
           /\ pyRandom' = Draw(pyRandom, drips.k)
    /\ UNCHANGED <<valVars, npRandom, thr, calls, first, px, nse>>

\* textured_shape = add_ink_texture(base_shape)
OrgTexture ==
    /\ org.pc = "texture"
    /\ LET textured == AddInkTexture(pyRandom, org.ink, org.size)
       IN  /\ org' = [org EXCEPT !.alpha = textured.alpha, !.pc = "mirror"]
           /\ pyRandom' = Draw(pyRandom, textured.k)
    /\ UNCHANGED <<valVars, npRandom, thr, calls, first, px, nse>>

OrgMirror ==
    /\ org.pc = "mirror"
    /\ org' = [org EXCEPT !.img = MirrorHalves(org.alpha, org.size), !.pc = "flip"]
    /\ UNCHANGED <<valVars, apiVars, px, nse>>

OrgFlip ==
    /\ org.pc = "flip"
    /\ org' = [org EXCEPT !.quad = FourQuadrant(org.img, org.size), !.pc = "resize"]
    /\ UNCHANGED <<valVars, apiVars, px, nse>>

OrgResize ==
    /\ org.pc = "resize"
    /\ org' = [org EXCEPT !.final = ResizeAndPaste(org.quad, org.size), !.pc = "done"]
    /\ UNCHANGED <<valVars, apiVars, px, nse>>

NextOrganic ==
    \/ OrgSeed \/ OrgShapeCount \/ OrgPosition \/ OrgShape \/ OrgPolygon \/ OrgConnect
    \/ OrgTendrilStarts \/ OrgTendril \/ OrgGrow \/ OrgTendrilEnd
    \/ OrgSpotCount \/ OrgSpot
    \/ OrgDrips \/ OrgTexture \/ OrgMirror \/ OrgFlip \/ OrgResize

SpecOrganic == InitOrganic /\ [][NextOrganic]_vars

FlipH(q, size) == <<size - 1 - q[1], q[2]>>
FlipV(q, size) == <<q[1], size - 1 - q[2]>>

\* C8: in create_realistic_rorschach, for every size, the image after the two
\* mirrors equals its horizontal and its vertical flip, the 75% copy is pasted
\* with equal left/right and top/bottom margins, and the final raster equals
\* both of its flips.
C8_FourQuadrantSymmetry ==
    /\ org.pc \in {"resize", "done"} =>
          \A q \in Pixels(org.size) :
              /\ org.quad[q] = org.quad[FlipH(q, org.size)]
              /\ org.quad[q] = org.quad[FlipV(q, org.size)]
    /\ org.pc = "done" =>
          /\ Offset(org.size) = org.size - NewSize(org.size) - Offset(org.size)
          /\ \A q \in Pixels(org.size) :
                /\ org.final[q] = org.final[FlipH(q, org.size)]
                /\ org.final[q] = org.final[FlipV(q, org.size)]

-----------------------------------------------------------------------------
(* SpecValidate: extract_eth_features on one identifier                    *)

InitValidate ==
    /\ vAddr \in Identifiers /\ vOut = "none"
    /\ ApiIdle /\ RenIdle

ExtractEthFeatures ==
    /\ vOut = "none"
    /\ vOut' = IF ExtractAccepts(vAddr) THEN "features" ELSE "ValueError"
    /\ UNCHANGED <<vAddr, apiVars, renVars>>

NextValidate == ExtractEthFeatures

SpecValidate == InitValidate /\ [][NextValidate]_vars

\* What the claim calls the normal form: lowercase, one leading "0x" taken off
StripPrefix(s) ==
    IF Len(s) >= 2 /\ s[1] = "0" /\ s[2] = "x" THEN SubSeq(s, 3, Len(s)) ELSE s

IsHex40(s) == Len(s) = HexLen /\ \A i \in 1..Len(s) : s[i] \in HexChars

\* C3 (SpecValidate): extract_eth_features succeeds exactly when the identifier,
\* lowercased and without an optional leading "0x", is forty characters of 0-9a-f,
\* and raises ValueError for every other string.
C3_Validation ==
    vOut # "none" => (vOut = "features" <=> IsHex40(StripPrefix(Lower(vAddr))))

-----------------------------------------------------------------------------
(* Seed derivation of the three entry points that seed from an identifier  *)

\* Well-formed identifiers: 40 hex characters, bare or behind "0x" / "0X",
\* in lower and upper case
SeedIdentifiers == {a \in Identifiers : IsHex40(StripPrefix(Lower(a)))}

NotCalled == [pc |-> "none"]
NoSeeds == [features |-> NotCalled, utils |-> NotCalled, pixel |-> NotCalled]

InitSeeds ==
    /\ vAddr \in SeedIdentifiers /\ vOut = NoSeeds
    /\ ApiIdle /\ RenIdle

\* extract_eth_features(eth_address): the check, then features['seed']
SeedExtractEthFeatures ==
    /\ vOut.features = NotCalled
    /\ vOut' = [vOut EXCEPT !.features =
                   IF ExtractAccepts(vAddr) THEN [pc |-> "return", seed |-> FeatureSeed(vAddr)]
                   ELSE [pc |-> "ValueError"]]
    /\ UNCHANGED <<vAddr, apiVars, renVars>>

\* set_seed_from_eth_address(eth_address): return seed, np_seed
SeedSetSeedFromEthAddress ==
    /\ vOut.utils = NotCalled
    /\ vOut' = [vOut EXCEPT !.utils = [pc |-> "return", seed |-> UtilsSeed(vAddr),
                                       np_seed |-> Mod2p32(UtilsSeed(vAddr))]]
    /\ UNCHANGED <<vAddr, apiVars, renVars>>

\* generate_pixel_inkblot(address): the seed, the ink pattern drawn from it, the
\* zero count behind the splatter and the border palette
SeedGeneratePixelInkblot ==
    /\ vOut.pixel = NotCalled
    /\ vOut' = [vOut EXCEPT !.pixel = [pc |-> "return", seed |-> PixelSeed(vAddr),
                                       ink |-> InkLayer(PixelSeed(vAddr), MaxSize, 4),
                                       zero_count |-> CountZeros(Normalize(vAddr)),
                                       palette |-> GetBorderPalette(vAddr)]]
    /\ UNCHANGED <<vAddr, apiVars, renVars>>

NextSeeds == SeedExtractEthFeatures \/ SeedSetSeedFromEthAddress \/ SeedGeneratePixelInkblot

SpecSeeds == InitSeeds /\ [][NextSeeds]_vars

\* Two digit strings that denote the same integer
SameInt(m, n) == StripZeros(m) = StripZeros(n)

\* C11 (SpecSeeds): every entry point that seeds from an identifier takes the
\* integer of the leading 16 hex characters of the SHA-256 digest of the
\* normalized identifier, so extract_eth_features, set_seed_from_eth_address and
\* generate_pixel_inkblot obtain the same seed for the same identifier.
C11_SeedDerivation ==
    LET seed64 == Leading(Sha256Hex(StripPrefix(Lower(vAddr))), 16) IN
    /\ vOut.features.pc = "return" => SameInt(vOut.features.seed, seed64)
    /\ vOut.utils.pc = "return" => SameInt(vOut.utils.seed, seed64)
    /\ vOut.pixel.pc = "return" => SameInt(vOut.pixel.seed, seed64)

\* What each entry point returns for the bare lowercase body of the identifier
BodyOf(address) == StripPrefix(Lower(address))
BodyFeatures(address) == [pc |-> "return", seed |-> FeatureSeed(BodyOf(address))]
BodyUtils(address) ==
    [pc |-> "return", seed |-> UtilsSeed(BodyOf(address)), np_seed |-> Mod2p32(UtilsSeed(BodyOf(address)))]
BodyPixel(address) ==
    [pc |-> "return", seed |-> PixelSeed(BodyOf(address)),
     ink |-> InkLayer(PixelSeed(BodyOf(address)), MaxSize, 4),
     zero_count |-> CountZeros(Normalize(BodyOf(address))),
     palette |-> GetBorderPalette(BodyOf(address))]

\* C12 (SpecSeeds): every digest, seed and character count is computed over the
\* lowercase, prefix-stripped body, so each entry point gives for an identifier
\* in any spelling (with or without "0x", any letter case) the result it gives
\* for the bare lowercase body.
C12_SpellingIndependent ==
    /\ vOut.features.pc = "return" => vOut.features = BodyFeatures(vAddr)
    /\ vOut.utils.pc = "return" => vOut.utils = BodyUtils(vAddr)
    /\ vOut.pixel.pc = "return" => vOut.pixel = BodyPixel(vAddr)

-----------------------------------------------------------------------------
(* The centering step on a canvas without ink                              *)

Transparent(img, size) == \A q \in Pixels(size) : img[q][4] = 0

\* C13 (SpecInkblot): when the raster handed to _center_and_scale_inkblot has no
\* pixel with alpha > 0, the step returns that raster unchanged and raises
\* nothing, for every size and margin.
C13_DegenerateCanvas ==
    [][(/\ nse.pc = "details" /\ nse.selected = <<>> /\ nse.stack = <<>>
        /\ Transparent(BlurResult(nse.ink, nse.size), nse.size))
       => (nse'.pc = "done" /\ nse'.img = BlurResult(nse.ink, nse.size))]_vars

\* create_inkblot returned a canvas that is transparent everywhere
C13_Witness ==
    /\ nse.pc = "done" /\ nse.render_details /\ nse.ink = {}
    /\ Transparent(nse.img, nse.size)

-----------------------------------------------------------------------------
(* SpecPerlin: generate_perlin_noise called on its own                     *)

MaxRows == 20
PerlinSizes == {9, 10, MaxRows}
PerlinScales == {9000, 100000}
PerlinOctaves == {0, 1, 2}
Persistences == {500, -500}

InitPerlin ==
    /\ ValIdle /\ PxIdle /\ OrgIdle
    /\ thr = [t \in Threads |-> IdleThread] /\ calls = 0 /\ first = <<>>
    /\ pyRandom = 11 /\ npRandom = 21
    /\ \E size \in PerlinSizes, sc \in PerlinScales, oc \in PerlinOctaves,
          ps \in Persistences, sd \in {NoneSeed, <<1, 2>>}, vf \in BOOLEAN :
         nse = [NoiseCall("generate_perlin_noise", size, NoneAddr, sd, sc, 1000, 5000)
                  EXCEPT !.pc = "perlin", !.par.octaves = oc, !.par.persistence = ps,
                         !.vertical_fix = vf]

NextPerlin == NoisePerlin \/ NoiseOctave \/ NoiseNormalize

SpecPerlin == InitPerlin /\ [][NextPerlin]_vars

\* C14 (SpecPerlin): every sample of the field generate_perlin_noise returns lies
\* in [0, 1], for every shape, scale, octave count, persistence, lacunarity and
\* seed, with the vertical fix on or off.
C14_NoiseRange ==
    nse.pc = "return" => \A q \in Pixels(nse.size) : nse.noise[q] \in 0..1000

\* C17 (SpecPerlin): in every octave every sample of the output has its four
\* corner gradients in the octave's lattice and takes the octave's contribution;
\* no sample is skipped.
C17_NoSampleSkipped ==
    nse.pc = "octave" =>
        \A q \in Pixels(nse.size) : InGrid(nse.frequency, nse.size, q[1], q[2])

\* The factor the claim gives a band row: 1.0 at the first row of the band,
\* 0.5 at the last row of the field, linear in between
RampFactor(y, height, bottom_area) ==
    IF y = height - 1 THEN 500
    ELSE 1000 - (500 * (y - (height - bottom_area))) \div (bottom_area - 1)

\* C18 (SpecPerlin): the vertical fix changes only the bottom int(0.1 * height)
\* rows; there v becomes 0.5 + (v - 0.5) * f with f ramping linearly from 1.0 at
\* the first band row to 0.5 at the last row of the field; rows above the band,
\* and every row of a field of fewer than 10 rows, are left as normalized.
C18_VerticalFix ==
    [][(nse.pc = "normalize" /\ nse.vertical_fix) =>
          \A q \in Pixels(nse.size) :
              nse'.noise[q] =
                  IF q[2] >= nse.size - nse.size \div 10
                  THEN Attenuate(Norm(nse.noise[q], nse.max_value),
                                 RampFactor(q[2], nse.size, nse.size \div 10))
                  ELSE Norm(nse.noise[q], nse.max_value)]_vars

-----------------------------------------------------------------------------
(* Tendrils of the organic renderer                                        *)

\* A round outline of 45 points, as generate_flowing_shape lays them out
Ring(cx, cy, r) == [i \in 1..45 |-> <<cx + IntOf(r * Cos45[i]), cy + IntOf(r * Sin45[i])>>]

\* the shapes handed to add_distributed_tendrils on a 12 x 24 half canvas
TendrilShapes ==
    {<<Ring(6, 12, 3), Ring(6, 19, 3)>>,
     <<Ring(6, 12, 5), Ring(3, 6, 2), Ring(8, 17, 3)>>}

\* add_distributed_tendrils(draw, shapes, width, height, center_x, center_y,
\* main_radius) called with the outlines, the generator in any of four states
InitTendrils ==
    /\ ValIdle /\ PxIdle /\ NseIdle
    /\ thr = [t \in Threads |-> IdleThread] /\ calls = 0 /\ first = <<>>
    /\ pyRandom \in 1..4 /\ npRandom = 21
    /\ \E sh \in TendrilShapes :
         org = [pc |-> "tendrils", size |-> 24, addr |-> NoneAddr, cnt |-> Len(sh),
                pos |-> <<>>, shapes |-> sh, ink |-> {},
                starts |-> <<>>, endpoints |-> <<>>, root |-> <<>>, stack |-> <<>>,
                segments |-> 0, todo |-> 0,
                alpha |-> <<>>, img |-> <<>>, quad |-> <<>>, final |-> <<>>]

NextTendrils == OrgTendrilStarts \/ OrgTendril \/ OrgGrow \/ OrgTendrilEnd

SpecTendrils == InitTendrils /\ [][NextTendrils]_vars

\* The most segments a call of depth d can draw: its own, and those of its 3
\* (depth > 2) or 2 calls
RECURSIVE MaxSegments(_)
MaxSegments(d) ==
    IF d <= 0 THEN 0 ELSE 1 + (IF d > 2 THEN 3 ELSE 2) * MaxSegments(d - 1)

\* The steps a pending call still stands for, at most: a call of depth 0
\* returns in one step; a call of depth d runs, then come its continuation and
\* up to two branches, each a step more than the call it turns into
RECURSIVE Pending(_)
Pending(d) == IF d <= 0 THEN 1 ELSE 3 * Pending(d - 1) + 3
PendingTask(task) ==
    IF task.kind = "branch" THEN Pending(task.depth - 1) + 1 ELSE Pending(task.depth)
RECURSIVE PendingAll(_)
PendingAll(stack) ==
    IF stack = <<>> THEN 0 ELSE PendingTask(Head(stack)) + PendingAll(Tail(stack))

C19_TendrilSeparation ==
    org.pc \in {"tendril", "grow", "spots"} =>
        /\ \A i, j \in 1..Len(org.endpoints) :
              i # j => Dist2(org.endpoints[i], org.endpoints[j]) >= 400
        /\ Len(org.endpoints) + Len(org.starts)
              <= 8 * Max(1, Min(20, 45 * Len(org.shapes)) \div 8)

-----------------------------------------------------------------------------
(* SpecCenter: _center_and_scale_inkblot on rasters of its own              *)

MaxCanvas == 6
CenterSizes == {MaxCanvas - 1, MaxCanvas}

\* whitespace_margin: "Amount of whitespace to leave around the edges (0.0-0.3)"
CenterMargins == {0, 150, 300}

\* black ink, opaque or half transparent, on a transparent canvas: a full
\* rectangle, or only two opposite corners of it; and the empty canvas
CenterRasters(size) ==
    {[q \in Pixels(size) |-> <<0, 0, 0, 0>>]}
    \cup {[q \in Pixels(size) |->
             IF /\ q[1] \in {x0, x1} \/ (full /\ x0 <= q[1] /\ q[1] <= x1)
                /\ q[2] \in {y0, y1} \/ (full /\ y0 <= q[2] /\ q[2] <= y1)
                /\ full \/ (q[1] = x0 <=> q[2] = y0)
             THEN <<0, 0, 0, a>> ELSE <<0, 0, 0, 0>>] :
            x0 \in 0..(size - 1), x1 \in 0..(size - 1), y0 \in 0..(size - 1),
            y1 \in 0..(size - 1), full \in BOOLEAN, a \in {255, 128}}

InitCenter ==
    /\ ValIdle /\ ApiIdle /\ PxIdle /\ OrgIdle
    /\ \E size \in CenterSizes, wm \in CenterMargins :
         \E img \in CenterRasters(size) :
            nse = [pc |-> "center", size |-> size, whitespace_margin |-> wm,
                   img |-> img, out |-> <<>>, c |-> <<>>]

\* _center_and_scale_inkblot(img, size, whitespace_margin): the image returned,
\* or the error Image.resize raises
CenterCall ==
    /\ nse.pc = "center"
    /\ LET res == CenterAndScaleInkblot(nse.img, nse.size, nse.whitespace_margin)
           empty == \A q \in Pixels(nse.size) : nse.img[q][4] = 0
       IN  nse' = [nse EXCEPT !.pc = IF res[1] = "ok" THEN "return" ELSE res[1],
                              !.out = IF res[1] = "ok" THEN res[2] ELSE <<>>,
                              !.c = IF empty THEN <<>>
                                    ELSE CenterLocals(nse.img, nse.size,
                                                      nse.whitespace_margin)]
    /\ UNCHANGED <<valVars, apiVars, px, org>>

NextCenter == CenterCall

SpecCenter == InitCenter /\ [][NextCenter]_vars

NotEmpty(img, size) == \E q \in Pixels(size) : img[q][4] > 0

\* C29 (SpecCenter): for a raster with a pixel of alpha > 0 and a margin in
\* 0.0-0.3 the call computes new_width >= 1 and new_height >= 1 and returns a
\* size x size image; it never fails.
C29_CenteringNeverDegenerates ==
    (nse.pc # "center" /\ NotEmpty(nse.img, nse.size)) =>
        /\ nse.pc = "return"
        /\ nse.c.new_width >= 1 /\ nse.c.new_height >= 1
        /\ DOMAIN nse.out = Pixels(nse.size)

\* C21 (SpecCenter): for a raster with a pixel of alpha > 0 the call returns the
\* bounding box scaled by one factor, no wider and no higher than
\* size * (1 - 2 * margin), pasted wholly inside a fresh size x size canvas with
\* left and right margins, and top and bottom margins, at most one pixel apart.
C21_CenteringFit ==
    (nse.pc # "center" /\ NotEmpty(nse.img, nse.size)) =>
        LET c == nse.c
            longer == Max(c.inkblot_width, c.inkblot_height)
            right == nse.size - c.paste_x - c.new_width
            bottom == nse.size - c.paste_y - c.new_height
        IN  /\ nse.pc = "return"
            /\ 1000 * c.new_width <= c.available /\ 1000 * c.new_height <= c.available
            /\ c.new_width = Trunc(c.inkblot_width * c.available, 1000 * longer)
            /\ c.new_height = Trunc(c.inkblot_height * c.available, 1000 * longer)
            /\ c.paste_x >= 0 /\ c.paste_y >= 0 /\ right >= 0 /\ bottom >= 0
            /\ right - c.paste_x \in {0, 1} /\ bottom - c.paste_y \in {0, 1}
            /\ \A q \in Pixels(nse.size) :
                  (q[1] < c.paste_x \/ q[1] >= c.paste_x + c.new_width
                     \/ q[2] < c.paste_y \/ q[2] >= c.paste_y + c.new_height)
                  => nse.out[q] = <<255, 255, 255, 255>>

-----------------------------------------------------------------------------
(* SpecDrip: create_flowing_drip, round by round                            *)

MaxDripSize == 10
DripSizes == {MaxDripSize - 2, MaxDripSize}
DripLengths == {3, 6}
DripSeeds == {5, 6}

\* create_flowing_drip(draw, x, y, length, direction, width, height) on the half
\* canvas of add_simple_drips, from any start point inside it
InitDrip ==
    /\ ValIdle /\ PxIdle /\ NseIdle
    /\ thr = [t \in Threads |-> IdleThread] /\ calls = 0 /\ first = <<>>
    /\ pyRandom \in DripSeeds /\ npRandom = 21
    /\ \E size \in DripSizes, length \in DripLengths, direction \in {"down", "left", "right"} :
         \E start \in HalfPixels(size) :
            org = [pc |-> "call", size |-> size, length |-> length,
                   direction |-> direction, pos |-> start, points |-> <<start>>,
                   drift_bias |-> 0, i |-> 0, broke |-> FALSE, ink |-> {}]

\* current_angle = main_direction + uniform(-0.2, 0.2); drift_bias = uniform(-0.2, 0.2)
FlowStart ==
    /\ org.pc = "call"
    /\ org' = [org EXCEPT !.drift_bias = Uniform(Draw(pyRandom, 2), -200, 200),
                          !.pc = "flow"]
    /\ pyRandom' = Draw(pyRandom, 2)
    /\ UNCHANGED <<valVars, npRandom, thr, calls, first, px, nse>>

\* one round of "for i in range(length)": the drift, the angle, the step, then
\* "Stop if out of bounds" or points.append((new_x, new_y))
FlowRound ==
    /\ org.pc = "flow"
    /\ org.i < org.length
    /\ LET drift == DriftBias(org.drift_bias, Draw(pyRandom, 1))
           new_pos == FlowNew(pyRandom, 0, org.pos, drift, org.i, org.length, org.direction)
       IN  org' = IF OffCanvas(new_pos, org.size)
                  THEN [org EXCEPT !.drift_bias = drift, !.broke = TRUE, !.pc = "draw"]
                  ELSE [org EXCEPT !.drift_bias = drift, !.pos = new_pos,
                                   !.points = Append(@, new_pos), !.i = @ + 1]
    /\ pyRandom' = Draw(pyRandom, 3)
    /\ UNCHANGED <<valVars, npRandom, thr, calls, first, px, nse>>

\* the loop has run its length rounds
FlowEnd ==
    /\ org.pc = "flow"
    /\ org.i = org.length
    /\ org' = [org EXCEPT !.pc = "draw"]
    /\ UNCHANGED <<valVars, apiVars, px, nse>>

\* "Draw the drip with naturally decreasing width"
FlowDraw ==
    /\ org.pc = "draw"
    /\ org' = [org EXCEPT !.ink = DrawFlow([k |-> 0, points |-> org.points], org.size).pix,
                          !.pc = "return"]
    /\ UNCHANGED <<valVars, apiVars, px, nse>>

NextDrip == FlowStart \/ FlowRound \/ FlowEnd \/ FlowDraw

SpecDrip == InitDrip /\ [][NextDrip]_vars

\* C23 (SpecDrip): in create_flowing_drip the drift bias is within [-0.3, 0.3]
\* after every step, every recorded point lies on the canvas (0 <= x < width,
\* 0 <= y < height), at most length + 1 points are recorded, and the walk stops
\* at the first step that would leave the canvas: nothing is recorded after it.
C23_DripWalkBounds ==
    /\ [](org.pc \in {"flow", "draw", "return"} =>
            /\ org.drift_bias \in (-300)..300
            /\ \A j \in 1..Len(org.points) : org.points[j] \in HalfPixels(org.size)
            /\ Len(org.points) <= org.length + 1
            /\ Len(org.points) = org.i + 1)
    /\ [][org.pc = "flow" =>
            /\ (org.i < org.length
                  /\ OffCanvas(FlowNew(pyRandom, 0, org.pos,
                                       DriftBias(org.drift_bias, Draw(pyRandom, 1)),
                                       org.i, org.length, org.direction), org.size))
               => (org'.pc = "draw" /\ org'.points = org.points)
            /\ org'.pc = "draw" => (org'.broke \/ org.i = org.length)]_vars
    /\ [][org.pc \in {"draw", "return"} => org'.points = org.points]_vars

\* a sideways drip was stopped at the edge of the canvas after recording points,
\* with the drift bias at its limit on the way
C23_Witness ==
    /\ org.pc = "return"
    /\ org.broke
    /\ org.direction # "down"
    /\ Len(org.points) > 1

-----------------------------------------------------------------------------
(* SpecFeatures: extract_eth_features and the parameters derived from it    *)

FeatureChars == {"0", "1", "7", "8", "a", "f"}
FeatureSplits == {0, 1, HexLen \div 2 - 1, HexLen \div 2, HexLen \div 2 + 1}

\* the sixteen hex characters in turn
AllHex == [i \in 1..HexLen |-> HexDigits[((i - 1) % 16) + 1]]

\* two runs of one character each, bare and behind "0x", the address of all
\* sixteen characters, and strings extract_eth_features refuses
FeatureAddrs ==
    { Rep(c, n) \o Rep(d, HexLen - n) : <<c, d, n>> \in FeatureChars \X FeatureChars \X FeatureSplits }
    \cup { <<"0", "x">> \o Rep(c, HexLen) : c \in FeatureChars }
    \cup { AllHex, Rep("a", HexLen) \o <<"\n">>, Rep("0", HexLen - 1), Short123 }

NoFeatures == [pc |-> "call", features |-> <<>>, params |-> <<>>, scheme |-> <<>>]

InitFeatures ==
    /\ vAddr \in FeatureAddrs /\ vOut = NoFeatures
    /\ ApiIdle /\ RenIdle

\* features = extract_eth_features(eth_address)
FeatExtract ==
    /\ vOut.pc = "call"
    /\ vOut' = IF ExtractAccepts(vAddr)
               THEN [vOut EXCEPT !.pc = "features", !.features = Features(vAddr)]
               ELSE [vOut EXCEPT !.pc = "ValueError"]
    /\ UNCHANGED <<vAddr, apiVars, renVars>>

\* apply_eth_features_to_noise(noise_params, features)
FeatApplyNoise ==
    /\ vOut.pc = "features"
    /\ vOut.params = <<>>
    /\ vOut' = [vOut EXCEPT !.params = ApplyEthFeaturesToNoise(vOut.features)]
    /\ UNCHANGED <<vAddr, apiVars, renVars>>

\* get_eth_color_scheme(features)
FeatColorScheme ==
    /\ vOut.pc = "features"
    /\ vOut.scheme = <<>>
    /\ vOut' = [vOut EXCEPT !.scheme = GetEthColorScheme(vOut.features)]
    /\ UNCHANGED <<vAddr, apiVars, renVars>>

NextFeatures == FeatExtract \/ FeatApplyNoise \/ FeatColorScheme

SpecFeatures == InitFeatures /\ [][NextFeatures]_vars

\* C24 (SpecFeatures): for every identifier extract_eth_features accepts,
\* letter_count + number_count = 40, zero_count + one_count <= number_count,
\* 1 <= max_repeat <= 40 and every ratio is a count in 0..40 over 40 characters;
\* the derived parameters stay in their ranges: noise_scale in [0.005, 0.015],
\* octaves in 4..8, persistence in [0.4, 0.7], lacunarity in [1.8, 2.2], contrast
\* in [0.9, 1.3], threshold in [0.45, 0.55], black_level in 0..30 and white_level
\* in 240..255.
C24_FeatureRanges ==
    /\ vOut.pc = "features" =>
          /\ vOut.features.letter_count + vOut.features.number_count = HexLen
          /\ vOut.features.zero_count + vOut.features.one_count
                <= vOut.features.number_count
          /\ vOut.features.max_repeat \in 1..HexLen
          /\ vOut.features.len = HexLen
          /\ vOut.features.distinct \in 0..HexLen
          /\ vOut.features.even_count \in 0..HexLen
          /\ vOut.features.high_count \in 0..HexLen
    /\ (vOut.pc = "features" /\ vOut.params # <<>>) =>
          /\ vOut.params.noise_scale \in 5000..15000
          /\ vOut.params.octaves \in 4..8
          /\ vOut.params.persistence \in 400..700
          /\ vOut.params.lacunarity \in 1800..2200
          /\ vOut.params.contrast \in 900..1300
          /\ vOut.params.threshold \in 4500..5500
    /\ (vOut.pc = "features" /\ vOut.scheme # <<>>) =>
          /\ vOut.scheme.black_level \in 0..30
          /\ vOut.scheme.white_level \in 240..255
          /\ vOut.scheme.threshold \in 4500..5500

\* an identifier of more than twenty zeros went through both derivations and
\* sits at the upper end of the octave and white level ranges
C24_Witness ==
    /\ vOut.pc = "features"
    /\ vOut.features.zero_count > 20
    /\ vOut.params # <<>> /\ vOut.params.octaves = 8
    /\ vOut.scheme # <<>> /\ vOut.scheme.white_level = 255

-----------------------------------------------------------------------------
(* The seeds create_noise_rorschach hands to np.random.seed (SpecNoise)     *)

\* C25 (SpecNoise): every value passed to np.random.seed lies in [0, 2^32), for
\* every identifier and every integer seed argument of create_noise_rorschach,
\* seeds of 2^32 and more included, so seeding never raises: the only ValueError
\* of a call is the one of a refused identifier.
C25_NumpySeedRange ==
    /\ nse.pc = "perlin" => (nse.seed = NoneSeed \/ Below2p32(nse.seed))
    /\ nse.pc = "ValueError" => (nse.addr # NoneAddr /\ ~ExtractAccepts(nse.addr))

-----------------------------------------------------------------------------
(* SpecPixelPar: generate_pixel_inkblot while another caller renders        *)

\* add_grid_splatter on its own: the ink after n rounds from generator state
\* st; round j takes draws 2j - 1 and 2j
SplatterAlone(st, n, ink, size, splat_grid) ==
    ink \cup UNION { CellRect(RandInt(Draw(st, 2 * j - 1), 0, splat_grid - 1),
                              RandInt(Draw(st, 2 * j), 0, splat_grid - 1), size, splat_grid) :
                     j \in {i \in 1..n :
                               ~SplatterSkips(RandInt(Draw(st, 2 * i - 1), 0, splat_grid - 1),
                                              splat_grid)} }

\* generate_pixel_inkblot, steps 1 to 3, with no other call in the process
InkAlone(address, size, grid) ==
    IF CountZeros(Normalize(address)) > 1
    THEN SplatterAlone(SeedState(AddSmall(PixelSeed(address), SplatterOffset)),
                       SplatterCount(CountZeros(Normalize(address))),
                       MirrorLeft(InkLayer(PixelSeed(address), size, grid), size),
                       size, grid * SplatterScale)
    ELSE MirrorLeft(InkLayer(PixelSeed(address), size, grid), size)

ParAddrs == {ValidA, ZeroTwo}

\* a process with its generators seeded from OS entropy, a call of
\* generate_pixel_inkblot under way and a second caller that has not called yet
InitPixelPar ==
    /\ ValIdle /\ NseIdle /\ OrgIdle
    /\ pyRandom = 11 /\ npRandom = 21
    /\ thr = [t \in Threads |-> IdleThread] /\ calls = 0 /\ first = <<>>
    /\ \E a \in ParAddrs, v \in PixelVariants :
         px = [pc |-> "ink", variant |-> v, addr |-> a, size |-> MaxSize - 2, grid |-> 3,
               seed |-> PixelSeed(a), ink |-> {}, count |-> 0, attempts |-> 0,
               marks |-> 0, skips |-> 0, cols |-> {}, srnd |-> 0, img |-> <<>>,
               brnd |-> 0, iteration |-> 0, active |-> <<>>, fresh |-> <<>>, at |-> 0,
               branches |-> <<>>, drips |-> <<>>, drnd |-> 0]

\* the steps of the pixel render interleave with the steps of the other call,
\* made without an identifier or with one of its own
NextPixelPar == NextPixel \/ (StepPar("t2") /\ thr'["t2"].addr \in {NoneAddr, ValidB})

SpecPixelPar == InitPixelPar /\ [][NextPixelPar]_vars

PixelPast(pcs) == px.pc \notin pcs

-----------------------------------------------------------------------------
(* The branch automaton of create_pixel_branches (SpecPixel)                *)

\* C30 (SpecPixel): in create_pixel_branches no branch pixel is set where the ink
\* has alpha > 0, the branch intensity of a pixel never decreases, every
\* non-zero intensity is at most int(255 * fade_factor) = 51, and the automaton
\* ends after exactly iterations = 4 rounds, handing its array over unchanged
\* as the alpha of the branch layer.
C30_BranchInvariants ==
    /\ [](px.pc = "branch_loop" =>
            /\ px.iteration \in 0..(BranchIterations - 1)
            /\ \A q \in Pixels(px.size) :
                  px.branches[q] > 0 => (q \notin px.ink /\ px.branches[q] <= (255 * 2) \div 10))
    /\ []((px.pc \in {"drips", "composite", "border", "done"} /\ px.variant = "old") =>
            /\ px.iteration = BranchIterations
            /\ \A q \in Pixels(px.size) :
                  px.branches[q][4] > 0 =>
                     (q \notin px.ink /\ px.branches[q][4] <= (255 * 2) \div 10))
    /\ [][(px.pc = "branch_loop" /\ px'.pc = "branch_loop") =>
            /\ px'.iteration \in {px.iteration, px.iteration + 1}
            /\ \A q \in Pixels(px.size) : px'.branches[q] >= px.branches[q]]_vars
    /\ [][(px.pc = "branch_loop" /\ px'.pc # "branch_loop") =>
            /\ px.iteration = BranchIterations - 1
            /\ px'.iteration = BranchIterations
            /\ \A q \in Pixels(px.size) : px'.branches[q][4] = px.branches[q]]_vars

\* the automaton has ended with first-round branches of intensity 51 and
\* second-round branches of intensity 10 around the ink
C30_Witness ==
    /\ px.pc = "drips"
    /\ \E q \in Pixels(px.size) : px.branches[q][4] = 51
    /\ \E q \in Pixels(px.size) : px.branches[q][4] = 10

====
